---- MODULE Spec2Model ----
(***************************************************************************)
(* Title normalisation and title matching of the game-data extractor.      *)
(*                                                                         *)
(* Two copies of GameTitleMatcher exist in the repository:                 *)
(*   "utils"     : src/utils/text_similarity.py   (TF-IDF only)            *)
(*   "extractor" : src/extractor/price_scraper.py (TF-IDF + Jaccard)       *)
(* Both are modelled; the variable impl says which one an instance is.     *)
(*                                                                         *)
(* A string is a sequence of one-character strings.  A score is a float    *)
(* of the program scaled by Scale and rounded down, so that a comparison   *)
(* with a threshold that is a whole number of 1/Scale is exact.            *)
(***************************************************************************)
EXTENDS Integers, Sequences, FiniteSets, TLC

VARIABLES
    impl,                 \* which GameTitleMatcher class the instance is
    similarity_threshold, \* self.similarity_threshold (scaled)
    enabled,              \* self.enabled (vector strategy flag)
    vectorizer,           \* self.vectorizer: the vocabulary of the last fit
    pc,                   \* "idle" | "returned": position of the caller
    search_title,         \* argument of the call in progress
    candidate_titles,     \* argument of the call in progress
    result,               \* value returned (or exception raised) by the call
    path,                 \* strategies the call went through, in order
    prev_failed,          \* the previous call's vector strategy raised
    title,                \* normaliser run: the input string
    npc,                  \* normaliser run: "start" | "once" | "twice"
    once,                 \* normalize_title(title)
    twice,                \* normalize_title(normalize_title(title))
    shared_idf,           \* threads: idf_ of self.vectorizer, <<>> before a fit
    tpc,                  \* threads: position of every thread in its call
    tcall,                \* threads: the call every thread is making
    tres,                 \* threads: the value every thread's call returned
    tclean,               \* threads: the call ran while no other call did
    tlocal,               \* threads: the local variables of every call
    fused,                \* floats: the build fuses a multiply with an add
    fpc,                  \* floats: position in the arithmetic of a call
    fcall,                \* floats: the call whose score is computed
    frows,                \* floats: the rows of tfidf_matrix, as binary64
    fat,                  \* floats: the pass, row and entry being worked on
    facc,                 \* floats: the running sum, then its square root
    fscores,              \* floats: similarities, as far as computed
    fbest_score,          \* floats: best_score = similarities[best_idx]
    best_price_pc,        \* prices: the rows of table best_price_pc, oldest first
    unique_price_game,    \* prices: best_price_pc has the unique key on game_id_rawg
    games,                \* prices: game_id_rawg of the rows of table games
    last_saved,           \* prices: the price last written for every game
    run,                  \* prices: the pricing workflow in progress
    rpc,                  \* prices: position of the workflow
    scraper_enabled,      \* prices: self.enabled of the scraper
    todo,                 \* prices: the games still to scrape, in order
    results,              \* prices: the result rows of the run so far
    driver,               \* prices: the browser driver of the run
    last_page,            \* catalogue: api_state.last_page, None without a row
    first_page,           \* catalogue: the first page a run extracted
    last_call,            \* catalogue: what the last DatabaseManager call did
    limit,                \* fetch_games: argument
    start_page,           \* fetch_games: argument
    page,                 \* fetch_games: the page to request next
    fetched,              \* fetch_games: games, as <<page, position>>
    requests,             \* fetch_games: the pages requested so far
    fetch_pc              \* fetch_games: "off" | "loop" | "done"

matcherVars == <<impl, similarity_threshold, enabled, vectorizer, pc,
                 search_title, candidate_titles, result, path, prev_failed>>
normVars == <<title, npc, once, twice>>
threadVars == <<shared_idf, tpc, tcall, tres, tclean, tlocal>>
floatVars == <<fused, fpc, fcall, frows, fat, facc, fscores, fbest_score>>
coreVars == <<matcherVars, normVars, threadVars, floatVars>>
priceVars == <<best_price_pc, unique_price_game, games, last_saved, run, rpc,
               scraper_enabled, todo, results, driver>>
gameVars == <<last_page, first_page, last_call>>
fetchVars == <<limit, start_page, page, fetched, requests, fetch_pc>>
pipelineVars == <<priceVars, gameVars, fetchVars>>
nonPriceVars == <<coreVars, gameVars, fetchVars>>
vars == <<impl, similarity_threshold, enabled, vectorizer, pc, search_title,
          candidate_titles, result, path, prev_failed, title, npc, once, twice,
          shared_idf, tpc, tcall, tres, tclean, tlocal,
          fused, fpc, fcall, frows, fat, facc, fscores, fbest_score,
          best_price_pc, unique_price_game, games, last_saved, run, rpc,
          scraper_enabled, todo, results, driver,
          last_page, first_page, last_call,
          limit, start_page, page, fetched, requests, fetch_pc>>

-----------------------------------------------------------------------------
(* Characters and the character classes of Python's re module (str patterns) *)

LowerLetters == {"a", "b", "c", "d", "e", "f", "g", "h", "i", "j", "k", "l", "m",
                 "n", "o", "p", "q", "r", "s", "t", "u", "v", "w", "x", "y", "z"}
UpperSeq == <<"A", "B", "C", "D", "E", "F", "G", "H", "I", "J", "K", "L", "M",
             "N", "O", "P", "Q", "R", "S", "T", "U", "V", "W", "X", "Y", "Z">>
LowerSeq == <<"a", "b", "c", "d", "e", "f", "g", "h", "i", "j", "k", "l", "m",
             "n", "o", "p", "q", "r", "s", "t", "u", "v", "w", "x", "y", "z">>
UpperLetters == {UpperSeq[k] : k \in 1..Len(UpperSeq)}
Digits == {"0", "1", "2", "3", "4", "5", "6", "7", "8", "9"}

IsLetter(c) == c \in LowerLetters \cup UpperLetters
IsDigit(c) == c \in Digits
\* \s
IsSpace(c) == c \in {" ", "\t"}
\* \w : letters, digits and the underscore
IsWordChar(c) == IsLetter(c) \/ IsDigit(c) \/ c = "_"

\* str.lower() on one character
LowerChar(c) ==
    IF c \in UpperLetters
    THEN LowerSeq[CHOOSE k \in 1..Len(UpperSeq) : UpperSeq[k] = c]
    ELSE c

lower(s) == [i \in 1..Len(s) |-> LowerChar(s[i])] \o <<>>

\* \b at the gap before s[i] (i in 1..Len(s)+1): exactly one side is a \w
WordBoundary(s, i) ==
    LET left == i > 1 /\ IsWordChar(s[i - 1])
        right == i <= Len(s) /\ IsWordChar(s[i])
    IN  left # right

\* the literal w occurs in s at position i
MatchAt(s, i, w) ==
    /\ i + Len(w) - 1 <= Len(s)
    /\ \A k \in 1..Len(w) : s[i + k - 1] = w[k]

\* membership of a character in a class of the patterns: \d, \s, \S
InClass(c, cls) ==
    CASE cls = "d" -> IsDigit(c)
      [] cls = "s" -> IsSpace(c)
      [] cls = "S" -> ~IsSpace(c)

\* number of consecutive characters of s from position i that are in cls
RECURSIVE Span(_, _, _)
Span(s, i, cls) ==
    IF i <= Len(s) /\ InClass(s[i], cls) THEN 1 + Span(s, i + 1, cls) ELSE 0

\* length matched at i by \b(a1|a2|...)\b, alternatives tried in order; 0: none
RECURSIVE AltMatchLen(_, _, _, _)
AltMatchLen(s, i, alts, k) ==
    IF k > Len(alts) THEN 0
    ELSE IF /\ MatchAt(s, i, alts[k])
            /\ WordBoundary(s, i)
            /\ WordBoundary(s, i + Len(alts[k]))
         THEN Len(alts[k])
         ELSE AltMatchLen(s, i, alts, k + 1)

\* re.sub(r'\b(a1|a2|...)\b', '', s): leftmost non-overlapping matches removed
RECURSIVE SubWordsFrom(_, _, _)
SubWordsFrom(s, i, alts) ==
    IF i > Len(s) THEN <<>>
    ELSE LET m == AltMatchLen(s, i, alts, 1)
         IN  IF m > 0 THEN SubWordsFrom(s, i + m, alts)
             ELSE <<s[i]>> \o SubWordsFrom(s, i + 1, alts)

SubWords(s, alts) == SubWordsFrom(s, 1, alts)

\* length matched at i by \b(v\d+\.\d+|version\s+\d+)\b ; 0: none
VersionMatchLen(s, i) ==
    LET d1 == Span(s, i + 1, "d")
        dot == i + 1 + d1
        d2 == Span(s, dot + 1, "d")
        vlen == 1 + d1 + 1 + d2
        word == <<"v", "e", "r", "s", "i", "o", "n">>
        sp == Span(s, i + 7, "s")
        d3 == Span(s, i + 7 + sp, "d")
        wlen == 7 + sp + d3
    IN  IF ~WordBoundary(s, i) THEN 0
        ELSE IF /\ MatchAt(s, i, <<"v">>) /\ d1 > 0
                /\ dot <= Len(s) /\ s[dot] = "." /\ d2 > 0
                /\ WordBoundary(s, i + vlen)
             THEN vlen
        ELSE IF /\ MatchAt(s, i, word) /\ sp > 0 /\ d3 > 0
                /\ WordBoundary(s, i + wlen)
             THEN wlen
        ELSE 0

\* re.sub(r'\b(v\d+\.\d+|version\s+\d+)\b', '', s)
RECURSIVE SubVersionFrom(_, _)
SubVersionFrom(s, i) ==
    IF i > Len(s) THEN <<>>
    ELSE LET m == VersionMatchLen(s, i)
         IN  IF m > 0 THEN SubVersionFrom(s, i + m)
             ELSE <<s[i]>> \o SubVersionFrom(s, i + 1)

SubVersion(s) == SubVersionFrom(s, 1)

\* \(\d{4}\) matches at i
YearAt(s, i) ==
    /\ i + 5 <= Len(s)
    /\ s[i] = "("
    /\ \A k \in 1..4 : IsDigit(s[i + k])
    /\ s[i + 5] = ")"

\* re.sub(r'\(\d{4}\)', '', s)
RECURSIVE SubYearFrom(_, _)
SubYearFrom(s, i) ==
    IF i > Len(s) THEN <<>>
    ELSE IF YearAt(s, i) THEN SubYearFrom(s, i + 6)
    ELSE <<s[i]>> \o SubYearFrom(s, i + 1)

SubYear(s) == SubYearFrom(s, 1)

\* re.sub(r'[^\w\s]', ' ', s)
SubSpecial(s) ==
    [i \in 1..Len(s) |-> IF IsWordChar(s[i]) \/ IsSpace(s[i]) THEN s[i] ELSE " "]
        \o <<>>

\* re.sub(r'\s+', ' ', s)
RECURSIVE CollapseFrom(_, _)
CollapseFrom(s, i) ==
    IF i > Len(s) THEN <<>>
    ELSE IF IsSpace(s[i])
         THEN <<" ">> \o CollapseFrom(s, i + Span(s, i, "s"))
         ELSE <<s[i]>> \o CollapseFrom(s, i + 1)

CollapseSpaces(s) == CollapseFrom(s, 1)

\* str.strip()
RECURSIVE strip(_)
strip(s) ==
    IF s = <<>> THEN s
    ELSE IF IsSpace(s[1]) THEN strip(Tail(s))
    ELSE IF IsSpace(s[Len(s)]) THEN strip(SubSeq(s, 1, Len(s) - 1))
    ELSE s

\* str.split(): the maximal runs of non-whitespace characters, in order
RECURSIVE SplitFrom(_, _)
SplitFrom(s, i) ==
    IF i > Len(s) THEN <<>>
    ELSE IF IsSpace(s[i]) THEN SplitFrom(s, i + 1)
    ELSE LET n == Span(s, i, "S")
         IN  <<SubSeq(s, i, i + n - 1)>> \o SplitFrom(s, i + n)

split(s) == SplitFrom(s, 1)

-----------------------------------------------------------------------------
(* The vocabularies of normalize_title *)

\* quality_words
QualityWords(im) ==
    <<
      <<"g","o","t","y">>,
      <<"g","a","m","e"," ","o","f"," ","t","h","e"," ","y","e","a","r">>,
      <<"u","l","t","i","m","a","t","e">>,
      <<"d","e","l","u","x","e">>,
      <<"p","r","e","m","i","u","m">>,
      <<"c","o","l","l","e","c","t","o","r">>,
      <<"s","p","e","c","i","a","l">>,
      <<"l","i","m","i","t","e","d">>
    >> \o (IF im = "utils" THEN << <<"d","i","r","e","c","t","o","r","'","s"," ","c","u","t">> >> ELSE <<>>)

\* format_words
FormatWords ==
    <<
      <<"e","d","i","t","i","o","n">>,
      <<"v","e","r","s","i","o","n">>,
      <<"r","e","m","a","s","t","e","r">>,
      <<"r","e","m","a","s","t","e","r","e","d">>,
      <<"h","d">>,
      <<"4","k">>,
      <<"e","n","h","a","n","c","e","d">>,
      <<"d","e","f","i","n","i","t","i","v","e">>
    >>

\* group_words
GroupWords(im) ==
    <<
      <<"p","a","c","k">>,
      <<"b","u","n","d","l","e">>,
      <<"c","o","l","l","e","c","t","i","o","n">>,
      <<"a","n","t","h","o","l","o","g","y">>,
      <<"t","r","i","l","o","g","y">>
    >> \o (IF im = "utils" THEN << <<"s","a","g","a">> >> ELSE <<>>)

\* platform_words
PlatformWords ==
    <<
      <<"p","c">>,
      <<"p","s","4">>,
      <<"p","s","5">>,
      <<"x","b","o","x">>,
      <<"n","i","n","t","e","n","d","o">>,
      <<"s","w","i","t","c","h">>,
      <<"s","t","e","a","m">>
    >>

\* GameTitleMatcher.normalize_title of the class im
normalize_title(im, t) ==
    IF t = <<>> THEN <<>>
    ELSE LET n0 == lower(t)
             n1 == SubWords(n0, QualityWords(im))
             n2 == SubWords(n1, FormatWords)
             n3 == SubWords(n2, GroupWords(im))
             n4 == IF im = "utils" THEN SubVersion(n3) ELSE n3
             n5 == SubWords(n4, PlatformWords)
             n6 == SubYear(n5)
             n7 == SubSpecial(n6)
         IN  strip(CollapseSpaces(n7))

-----------------------------------------------------------------------------
(* Scores *)

\* a float score x of the program is the integer floor(Scale * x)
Scale == 1000
\* the Optional[int] value None of a returned index
None == 0 - 1
\* the literal 0.3 of _find_best_match_simple, scaled
SimpleThreshold == 300

\* what a call gives back: the (index, score) pair, or an exception (exc), with
\* the strategy that produced it (by), whether the vector strategy was
\* attempted (tried) and raised (failed), and the vocabulary the vectorizer
\* was fitted with, if it was (fitted, vocab)
Ret(idx, score, by, tried, failed, fitted, vocab) ==
    [idx |-> idx, score |-> score, exc |-> FALSE, by |-> by,
     tried |-> tried, failed |-> failed, fitted |-> fitted, vocab |-> vocab]

-----------------------------------------------------------------------------
(* TfidfVectorizer(lowercase, stop_words='english', ngram_range=(1,2),       *)
(* token_pattern=r'\b[a-zA-Z][a-zA-Z0-9]*\b').fit_transform and              *)
(* cosine_similarity                                                         *)

\* the entries of sklearn's English stop word list that the titles can hold
StopWords == {<<"t", "h", "e">>, <<"o", "f">>, <<"a">>}

\* a whitespace-delimited word w is a token of the pattern
\* \b[a-zA-Z][a-zA-Z0-9]*\b iff it starts with a letter and holds no "_"
IsToken(w) ==
    /\ w # <<>>
    /\ IsLetter(w[1])
    /\ \A k \in 1..Len(w) : IsLetter(w[k]) \/ IsDigit(w[k])

\* the tokens of a document after stop word removal, in order
Tokens(doc) ==
    LET IsKept(w) == IsToken(w) /\ w \notin StopWords
    IN  SelectSeq(split(lower(doc)), IsKept)

\* the terms of a document: its unigrams then its bigrams of adjacent tokens
Terms(doc) ==
    LET tk == Tokens(doc)
        bigrams == IF Len(tk) < 2 THEN <<>>
                   ELSE [k \in 1..(Len(tk) - 1) |-> <<tk[k], tk[k + 1]>>]
    IN  [k \in 1..Len(tk) |-> <<tk[k]>>] \o bigrams

\* number of occurrences of the term t in the term sequence ts
Count(ts, t) == Cardinality({k \in 1..Len(ts) : ts[k] = t})

\* round(IdfScale * (ln((1 + n) / (1 + df)) + 1)) at row n, column df
IdfScale == 32
IdfTable ==
    << <<32>>,
       <<45, 32>>,
       <<54, 41, 32>>,
       <<61, 48, 39, 32>>,
       <<67, 54, 45, 38, 32>>,
       <<72, 59, 50, 43, 37, 32>>,
       <<76, 63, 54, 47, 41, 36, 32>>,
       <<80, 67, 58, 51, 45, 40, 36, 32>> >>

\* smooth idf of a term present in df of the n documents
Idf(n, df) == IdfTable[n][df]

\* the elements of a finite set in some order
RECURSIVE SetToSeq(_)
SetToSeq(S) ==
    IF S = {} THEN <<>>
    ELSE LET x == CHOOSE y \in S : TRUE IN <<x>> \o SetToSeq(S \ {x})

\* sum of the products of the entries of two rows
RECURSIVE Dot(_, _)
Dot(a, b) ==
    IF a = <<>> THEN 0 ELSE Head(a) * Head(b) + Dot(Tail(a), Tail(b))

\* floor of the square root of n >= 1, by Newton's iteration from x
RECURSIVE FloorSqrtFrom(_, _)
FloorSqrtFrom(n, x) ==
    LET y == (x + n \div x) \div 2
    IN  IF y >= x THEN x ELSE FloorSqrtFrom(n, y)

\* least r with r * r >= n
CeilSqrt(n) ==
    IF n = 0 THEN 0
    ELSE LET f == FloorSqrtFrom(n, n)
         IN  IF f * f = n THEN f ELSE f + 1

\* number of the documents (term sequences) that hold the term t
DocFreq(terms, t) == Cardinality({d \in 1..Len(terms) : Count(terms[d], t) > 0})

\* the tf-idf row of every document over the features feats
TfidfRows(terms, feats) ==
    [d \in 1..Len(terms) |->
        [j \in 1..Len(feats) |->
            Count(terms[d], feats[j]) * Idf(Len(terms), DocFreq(terms, feats[j]))]
        \o <<>>] \o <<>>

\* the fitted matrix of the documents whose term sequences are terms, or the
\* ValueError("empty vocabulary") of a corpus without any term
FitTerms(terms, feats) ==
    IF feats = <<>>
    THEN [raised |-> TRUE, vocab |-> {}, weight |-> <<>>]
    ELSE [raised |-> FALSE,
          vocab |-> {feats[j] : j \in 1..Len(feats)},
          weight |-> TfidfRows(terms, feats)]

\* the vocabulary of a corpus given as term sequences, in some order
Vocabulary(terms) ==
    SetToSeq(UNION {{terms[d][k] : k \in 1..Len(terms[d])} : d \in 1..Len(terms)})

\* the term sequences of the documents
Analyze(texts) == [d \in 1..Len(texts) |-> Terms(texts[d])] \o <<>>

FitAnalyzed(terms) == FitTerms(terms, Vocabulary(terms))

\* vectorizer.fit_transform(texts): the vocabulary and the tf-idf weights of
\* every document; raises ValueError("empty vocabulary") when no term is left
fit_transform(texts) == FitAnalyzed(Analyze(texts))

\* dot / (|a| |b|), scaled; 0 when a row is all zero
CosineOf(dot, na, nb) ==
    IF na = 0 \/ nb = 0 THEN 0
    ELSE (Scale * dot) \div CeilSqrt(na * nb)

\* cosine of the rows a and b
Cosine(a, b) == CosineOf(Dot(a, b), Dot(a, a), Dot(b, b))

\* cosine_similarity(tfidf_matrix[0:1], tfidf_matrix[1:]).flatten()
cosine_similarity(weight) ==
    [j \in 1..(Len(weight) - 1) |-> Cosine(weight[1], weight[j + 1])] \o <<>>

\* faulty variant of argmax: the last position of the maximum
argmax_last(xs) ==
    CHOOSE k \in 1..Len(xs) :
        /\ \A j \in 1..Len(xs) : xs[j] <= xs[k]
        /\ \A j \in (k + 1)..Len(xs) : xs[j] < xs[k]

\* np.argmax: the first position of the maximum (1-based here)
argmax(xs) ==
    CHOOSE k \in 1..Len(xs) :
        /\ \A j \in 1..Len(xs) : xs[j] <= xs[k]
        /\ \A j \in 1..(k - 1) : xs[j] < xs[k]

-----------------------------------------------------------------------------
(* The titles the matcher is called with, and their normal forms *)

T_empty == <<>>
T_FIFA_23 == <<"F", "I", "F", "A", " ", "2", "3">>
T_FIFA_24 == <<"F", "I", "F", "A", " ", "2", "4">>
T_fifa_street == <<"f", "i", "f", "a", " ", "s", "t", "r", "e", "e", "t">>
T_PC == <<"P", "C">>
T_23 == <<"2", "3">>

Titles == {T_empty, T_FIFA_23, T_FIFA_24, T_fifa_street, T_PC, T_23}

\* the pair of test_similarity the Witcher example is made of
T_Witcher_3 ==
    <<"T", "h", "e", " ", "W", "i", "t", "c", "h", "e", "r", " ", "3">>
T_Witcher_III ==
    <<"T", "h", "e", " ", "W", "i", "t", "c", "h", "e", "r", " ", "I", "I", "I",
      " ", "W", "i", "l", "d", " ", "H", "u", "n", "t">>

\* calls made besides those over Titles: <<search_title, candidate_titles>>
Examples == {<<T_Witcher_3, <<T_Witcher_III>>>>}
ExampleTitles == {T_Witcher_3, T_Witcher_III}

\* normalize_title of both classes on every title, computed once
NormalForms ==
    [im \in {"utils", "extractor"} |->
        ([t \in Titles \cup ExampleTitles |-> normalize_title(im, t)]
            @@ <<>>)] @@ <<>>

\* self.normalize_title(t) as the matcher calls it
NormalizedTitle(im, t) ==
    IF t \in Titles \cup ExampleTitles THEN NormalForms[im][t]
    ELSE normalize_title(im, t)

-----------------------------------------------------------------------------
(* find_best_match *)

\* [self.normalize_title(title) for title in candidate_titles]
normalize_all(im, c) == [k \in 1..Len(c) |-> NormalizedTitle(im, c[k])] \o <<>>

\* faulty variant of NonEmptyPairs: the "if title.strip()" filter is dropped
KeepAllPairs(pairs) == pairs

\* keeps the pairs whose title is non-empty after strip()
NonEmptyPairs(pairs) ==
    LET NonEmpty(pr) == strip(pr[2]) # <<>>
    IN  SelectSeq(pairs, NonEmpty)

\* faulty variant of valid_candidates: the titles are filtered first and
\* enumerated afterwards, so the positions are those of the filtered list
valid_candidates_renumbered(normalized_candidates) ==
    LET NonEmpty(t) == strip(t) # <<>>
        kept == SelectSeq(normalized_candidates, NonEmpty)
    IN  [k \in 1..Len(kept) |-> <<k - 1, kept[k]>>] \o <<>>

\* [(i, title) for i, title in enumerate(normalized_candidates) if title.strip()]
valid_candidates(normalized_candidates) ==
    NonEmptyPairs([k \in 1..Len(normalized_candidates) |->
                      <<k - 1, normalized_candidates[k]>>] \o <<>>)

\* faulty variant of AcceptsVector: the constant of the token strategy is
\* compared with, in place of the configured threshold
AcceptsVectorFallbackConstant(best_score, threshold) ==
    best_score >= SimpleThreshold

\* the comparison that accepts the best candidate of the vector strategy
AcceptsVector(best_score, threshold) == best_score >= threshold

\* the comparison that accepts the best candidate of the token strategy
AcceptsSimple(best_score) == best_score >= SimpleThreshold

\* faulty variant of Jaccard: the union is smoothed by one
JaccardSmoothed(search_words, candidate_words) ==
    IF search_words # {} /\ candidate_words # {}
    THEN (Scale * Cardinality(search_words \cap candidate_words))
            \div (Cardinality(search_words \cup candidate_words) + 1)
    ELSE 0

\* faulty variant of Jaccard: the intersection is divided by the number of
\* search words, not by the size of the union
JaccardOverSearch(search_words, candidate_words) ==
    IF search_words # {} /\ candidate_words # {}
    THEN (Scale * Cardinality(search_words \cap candidate_words))
            \div Cardinality(search_words)
    ELSE 0

\* intersection / union of two token sets, 0.0 if either is empty
Jaccard(search_words, candidate_words) ==
    IF search_words # {} /\ candidate_words # {}
    THEN (Scale * Cardinality(search_words \cap candidate_words))
            \div Cardinality(search_words \cup candidate_words)
    ELSE 0

ToSet(seq) == {seq[k] : k \in 1..Len(seq)}

\* set(self.normalize_title(t).lower().split())
WordsOf(im, t) == ToSet(split(lower(NormalizedTitle(im, t))))

\* one turn of the loop of _find_best_match_simple for candidate i (0-based):
\* (best_idx, best_score) after it
SimpleStep(best, i, search_words, candidate_words) ==
    IF /\ search_words # {}
       /\ candidate_words # {}
       /\ Jaccard(search_words, candidate_words) > best[2]
    THEN <<i, Jaccard(search_words, candidate_words)>>
    ELSE best

\* the loop of _find_best_match_simple from candidate i on (i is 1-based),
\* carrying (best_idx, best_score)
RECURSIVE SimpleLoop(_, _, _, _, _)
SimpleLoop(im, search_words, c, i, best) ==
    IF i > Len(c) THEN best
    ELSE SimpleLoop(im, search_words, c, i + 1,
                    SimpleStep(best, i - 1, search_words, WordsOf(im, c[i])))

\* the return statement of _find_best_match_simple
ReturnSimple(best, tried) ==
    IF AcceptsSimple(best[2])
    THEN Ret(best[1], best[2], "simple", tried, tried, FALSE, {})
    ELSE Ret(None, best[2], "simple", tried, tried, FALSE, {})

\* GameTitleMatcher._find_best_match_simple (extractor); tried: it runs as the
\* fallback of a vector strategy that raised
find_best_match_simple(im, tried, s, c) ==
    ReturnSimple(SimpleLoop(im, WordsOf(im, s), c, 1, <<None, 0>>), tried)

\* what the except clause around the vector strategy does with the exception
OnVectorError(im, s, c) ==
    IF im = "utils"
    THEN Ret(None, 0, "except", TRUE, TRUE, FALSE, {})
    ELSE find_best_match_simple(im, TRUE, s, c)

\* faulty variant of ReturnVector: a rejection returns the score 0.0
ReturnVectorZeroOnReject(threshold, original_idx, best_score, vocab) ==
    IF AcceptsVector(best_score, threshold)
    THEN Ret(original_idx, best_score, "tfidf", TRUE, FALSE, TRUE, vocab)
    ELSE Ret(None, 0, "tfidf", TRUE, FALSE, TRUE, vocab)

\* the return statement of the vector strategy
ReturnVector(threshold, original_idx, best_score, vocab) ==
    IF AcceptsVector(best_score, threshold)
    THEN Ret(original_idx, best_score, "tfidf", TRUE, FALSE, TRUE, vocab)
    ELSE Ret(None, best_score, "tfidf", TRUE, FALSE, TRUE, vocab)

\* faulty variant of SelectBest: best_idx is returned as it is, without the
\* lookup of the original position in valid_candidates
SelectBestUnmapped(threshold, valid, similarities, vocab) ==
    ReturnVector(threshold, argmax(similarities) - 1,
                 similarities[argmax(similarities)], vocab)

\* best_idx, best_score and original_idx from the similarities
SelectBest(threshold, valid, similarities, vocab) ==
    ReturnVector(threshold, valid[argmax(similarities)][1],
                 similarities[argmax(similarities)], vocab)

\* the try block once the matrix is fitted, or the except clause
MatchFitted(im, threshold, s, c, valid, tfidf_matrix) ==
    IF tfidf_matrix.raised THEN OnVectorError(im, s, c)
    ELSE SelectBest(threshold, valid, cosine_similarity(tfidf_matrix.weight),
                    tfidf_matrix.vocab)

\* all_texts = [normalized_search] + [title for _, title in valid_candidates]
all_texts(normalized_search, valid) ==
    <<normalized_search>> \o ([k \in 1..Len(valid) |-> valid[k][2]] \o <<>>)

\* the vector strategy after the filter of the empty titles
MatchValid(im, threshold, s, c, valid) ==
    IF valid = <<>> THEN Ret(None, 0, "novalid", FALSE, FALSE, FALSE, {})
    ELSE MatchFitted(im, threshold, s, c, valid,
                     fit_transform(all_texts(NormalizedTitle(im, s), valid)))

\* the vector strategy: utils find_best_match lines 72-110, extractor
\* _find_best_match_tfidf
find_best_match_tfidf(im, threshold, s, c) ==
    MatchValid(im, threshold, s, c, valid_candidates(normalize_all(im, c)))

\* GameTitleMatcher.find_best_match of the class im
find_best_match(im, en, threshold, s, c) ==
    IF s = <<>> \/ c = <<>> THEN Ret(None, 0, "early", FALSE, FALSE, FALSE, {})
    ELSE IF im = "utils" \/ en
         THEN find_best_match_tfidf(im, threshold, s, c)
         ELSE find_best_match_simple(im, FALSE, s, c)

-----------------------------------------------------------------------------
(* Inputs *)

\* longest candidate list a call is given
MaxCands == 2
\* number of pieces a normaliser input is made of, at most
MaxPieces == 3

RECURSIVE SeqsUpTo(_, _)
SeqsUpTo(S, n) ==
    IF n = 0 THEN {<<>>}
    ELSE LET shorter == SeqsUpTo(S, n - 1)
         IN  shorter \cup {Append(q, x) : q \in shorter, x \in S}

CandidateLists == SeqsUpTo(Titles, MaxCands)

\* the configured thresholds tried: 0.0, the default 0.6 and 1.0
DefaultThreshold == 600
Thresholds == {0, DefaultThreshold, Scale}

\* the pieces the normaliser inputs are made of: a word, vocabulary words
\* behind a hyphen or a space, a removable token, a year, and single characters
Pieces ==
    { <<"g","a","m","e">>,
      <<"-","o","f","-","t","h","e","-","y","e","a","r">>,
      <<" ","o","f"," ","t","h","e"," ","y","e","a","r">>,
      <<" ","p","c">>,
      <<"h","d">>,
      <<"(","2","0","1","9",")">>,
      <<"_">>,
      <<" ">>,
      <<"F">> }

RECURSIVE Concat(_)
Concat(ps) == IF ps = <<>> THEN <<>> ELSE Head(ps) \o Concat(Tail(ps))

NormInputs == {Concat(ps) : ps \in SeqsUpTo(Pieces, MaxPieces)}

NoResult == [idx |-> None, score |-> 0, exc |-> FALSE]
NoPath == [by |-> "nocall", tried |-> FALSE, failed |-> FALSE]

\* the threads that share one matcher instance
Threads == {"A", "B"}
NoCall == [kind |-> "none", s |-> <<>>, c |-> <<>>]
NoLocals == [guard |-> FALSE, valid |-> <<>>, nfeat |-> 0, X |-> <<>>,
             idf |-> <<>>]

\* no thread is making a call and the vectorizer is not fitted
ThreadsIdle ==
    /\ shared_idf = <<>>
    /\ tpc = [t \in Threads |-> "idle"]
    /\ tcall = [t \in Threads |-> NoCall]
    /\ tres = [t \in Threads |-> NoResult]
    /\ tclean = [t \in Threads |-> TRUE]
    /\ tlocal = [t \in Threads |-> NoLocals]

\* a binary64 number >= 0 is [m, e]: the value m * 2^e, m in binary digits,
\* least significant first; 0.0 has no digit
Zero == [m |-> <<>>, e |-> 0]
NoPlace == [pass |-> 0, row |-> 0, pos |-> 0]

\* no score is being computed
FloatIdle ==
    /\ fpc = "idle"
    /\ fcall = NoCall
    /\ frows = <<>>
    /\ fat = NoPlace
    /\ facc = Zero
    /\ fscores = <<>>
    /\ fbest_score = Zero

\* game_id_rawg of the games a catalogue can hold
GameIds == 1..3
\* what was last written for a game: nothing yet
Never == [saved |-> FALSE, price |-> "NULL", similarity_score |-> 0 - 1]

\* no pricing workflow runs and best_price_pc is empty
PricesIdle ==
    /\ best_price_pc = <<>>
    /\ unique_price_game = TRUE
    /\ games = {}
    /\ last_saved = [g \in GameIds |-> Never]
    /\ run = "none"
    /\ rpc = "idle"
    /\ scraper_enabled = TRUE
    /\ todo = <<>>
    /\ results = <<>>
    /\ driver = "none"

\* what a call that was never made did
NoDbCall == [op |-> "none", connect |-> "none", batch |-> <<>>, refused |-> 0,
             ret |-> FALSE, raised |-> FALSE, opened |-> FALSE,
             closed |-> FALSE, written |-> {}]

\* no catalogue run was made
GamesIdle ==
    /\ last_page = None
    /\ first_page = None
    /\ last_call = NoDbCall

\* no fetch_games call is made
FetchIdle ==
    /\ limit = 0
    /\ start_page = 0
    /\ page = 0
    /\ fetched = <<>>
    /\ requests = <<>>
    /\ fetch_pc = "off"

PipelineIdle == PricesIdle /\ GamesIdle /\ FetchIdle

-----------------------------------------------------------------------------
(* The matcher: construction, then calls one after the other *)

\* GameTitleMatcher.__init__: the threshold is the argument; the extractor
\* class sets enabled from SKLEARN_AVAILABLE, the utils class always builds
\* its vectorizer
Init ==
    /\ impl \in {"utils", "extractor"}
    /\ similarity_threshold \in Thresholds
    /\ enabled \in (IF impl = "utils" THEN {TRUE} ELSE BOOLEAN)
    /\ vectorizer = {}
    /\ pc = "idle"
    /\ search_title = <<>>
    /\ candidate_titles = <<>>
    /\ result = NoResult
    /\ path = NoPath
    /\ prev_failed = FALSE
    /\ title = <<>>
    /\ npc = "off"
    /\ once = <<>>
    /\ twice = <<>>
    /\ ThreadsIdle
    /\ fused = FALSE
    /\ FloatIdle
    /\ PipelineIdle

\* faulty variant of Call: a call whose vector strategy raised switches the
\* vector mode off for the calls that follow
CallDisabling(s, c) ==
    /\ pc = "idle"
    /\ \E r \in {find_best_match(impl, enabled, similarity_threshold, s, c)} :
           /\ result' = [idx |-> r.idx, score |-> r.score, exc |-> r.exc]
           /\ vectorizer' = IF r.fitted THEN r.vocab ELSE vectorizer
           /\ path' = [by |-> r.by, tried |-> r.tried, failed |-> r.failed]
    /\ search_title' = s
    /\ candidate_titles' = c
    /\ pc' = "returned"
    /\ enabled' = (enabled /\ ~path'.failed)
    /\ UNCHANGED <<impl, similarity_threshold, prev_failed>>
    /\ UNCHANGED normVars
    /\ UNCHANGED threadVars
    /\ UNCHANGED floatVars
    /\ UNCHANGED pipelineVars

\* one call matcher.find_best_match(s, c), from entry to return
Call(s, c) ==
    /\ pc = "idle"
    /\ \E r \in {find_best_match(impl, enabled, similarity_threshold, s, c)} :
           /\ result' = [idx |-> r.idx, score |-> r.score, exc |-> r.exc]
           /\ vectorizer' = IF r.fitted THEN r.vocab ELSE vectorizer
           /\ path' = [by |-> r.by, tried |-> r.tried, failed |-> r.failed]
    /\ search_title' = s
    /\ candidate_titles' = c
    /\ pc' = "returned"
    /\ UNCHANGED <<impl, similarity_threshold, enabled, prev_failed>>
    /\ UNCHANGED normVars
    /\ UNCHANGED threadVars
    /\ UNCHANGED floatVars
    /\ UNCHANGED pipelineVars

\* the caller consumes the result and is ready for the next call
Return ==
    /\ pc = "returned"
    /\ pc' = "idle"
    /\ prev_failed' = path.failed
    /\ search_title' = <<>>
    /\ candidate_titles' = <<>>
    /\ result' = NoResult
    /\ path' = NoPath
    /\ UNCHANGED <<impl, similarity_threshold, enabled, vectorizer>>
    /\ UNCHANGED normVars
    /\ UNCHANGED threadVars
    /\ UNCHANGED floatVars
    /\ UNCHANGED pipelineVars

Next ==
    \/ \E s \in Titles, c \in CandidateLists : Call(s, c)
    \/ \E e \in Examples : Call(e[1], e[2])
    \/ Return

Spec == Init /\ [][Next]_vars

-----------------------------------------------------------------------------
(* The normaliser applied to a title, then to its own output *)

InitNorm ==
    /\ impl \in {"utils", "extractor"}
    /\ similarity_threshold = DefaultThreshold
    /\ enabled = TRUE
    /\ vectorizer = {}
    /\ pc = "idle"
    /\ search_title = <<>>
    /\ candidate_titles = <<>>
    /\ result = NoResult
    /\ path = NoPath
    /\ prev_failed = FALSE
    /\ title \in NormInputs
    /\ npc = "start"
    /\ once = <<>>
    /\ twice = <<>>
    /\ ThreadsIdle
    /\ fused = FALSE
    /\ FloatIdle
    /\ PipelineIdle

NormalizeOnce ==
    /\ npc = "start"
    /\ once' = normalize_title(impl, title)
    /\ npc' = "once"
    /\ UNCHANGED <<title, twice>>
    /\ UNCHANGED matcherVars
    /\ UNCHANGED threadVars
    /\ UNCHANGED floatVars
    /\ UNCHANGED pipelineVars

NormalizeTwice ==
    /\ npc = "once"
    /\ twice' = normalize_title(impl, once)
    /\ npc' = "twice"
    /\ UNCHANGED <<title, once>>
    /\ UNCHANGED matcherVars
    /\ UNCHANGED threadVars
    /\ UNCHANGED floatVars
    /\ UNCHANGED pipelineVars

NextNorm == NormalizeOnce \/ NormalizeTwice

SpecNorm == InitNorm /\ [][NextNorm]_vars

-----------------------------------------------------------------------------
(* Calls made by two threads on one matcher.  fit_transform of the shared   *)
(* vectorizer is taken in its steps: the term counts of the corpus (local   *)
(* to the call), the fit that stores idf_ in the vectorizer, and the        *)
(* transform that reads idf_ back from the vectorizer.                      *)

\* the characters of tokens and terms, in the order of str comparison
CharOrder ==
    <<" ", "0", "1", "2", "3", "4", "5", "6", "7", "8", "9", "_">> \o LowerSeq

CharRank(ch) == CHOOSE k \in 1..Len(CharOrder) : CharOrder[k] = ch

\* the string of a term: its tokens joined by a space
TermString(t) == IF Len(t) = 1 THEN t[1] ELSE t[1] \o <<" ">> \o t[2]

\* a < b for two strings
RECURSIVE StrLess(_, _)
StrLess(a, b) ==
    IF b = <<>> THEN FALSE
    ELSE IF a = <<>> THEN TRUE
    ELSE IF Head(a) = Head(b) THEN StrLess(Tail(a), Tail(b))
    ELSE CharRank(Head(a)) < CharRank(Head(b))

\* the term of S whose string is the least
FirstTerm(S) ==
    CHOOSE x \in S : \A y \in S \ {x} : StrLess(TermString(x), TermString(y))

\* the terms of S in increasing order of their strings
RECURSIVE SortTerms(_)
SortTerms(S) ==
    IF S = {} THEN <<>>
    ELSE <<FirstTerm(S)>> \o SortTerms(S \ {FirstTerm(S)})

\* the features of a corpus in the order of their column: vocabulary_ is
\* numbered in sorted order of the terms
feature_names(terms) ==
    SortTerms(UNION {{terms[d][k] : k \in 1..Len(terms[d])} :
                        d \in 1..Len(terms)})

\* CountVectorizer.fit_transform: the term counts X of every document
CountRows(terms, feats) ==
    [d \in 1..Len(terms) |->
        [j \in 1..Len(feats) |-> Count(terms[d], feats[j])] \o <<>>] \o <<>>

\* TfidfTransformer.fit(X): the idf_ vector, one entry per feature
IdfVector(terms, feats) ==
    [j \in 1..Len(feats) |-> Idf(Len(terms), DocFreq(terms, feats[j]))] \o <<>>

\* X scaled column by column by the entries of idf
Weigh(X, idf) ==
    [d \in 1..Len(X) |->
        [j \in 1..Len(X[d]) |-> X[d][j] * idf[j]] \o <<>>] \o <<>>

\* TfidfTransformer.transform(X) with the idf_ the vectorizer holds at that
\* moment.  An idf_ shorter than the rows of X raises; an equal length scales
\* X by it; a longer one raises (product with the diagonal idf matrix) or
\* scales X by its first entries (indexing idf_ by column), depending on the
\* library version
TransformOutcomes(X, idf) ==
    IF Len(idf) < Len(X[1])
    THEN {[raised |-> TRUE, weight |-> <<>>]}
    ELSE IF Len(idf) = Len(X[1])
    THEN {[raised |-> FALSE, weight |-> Weigh(X, idf)]}
    ELSE {[raised |-> TRUE, weight |-> <<>>],
          [raised |-> FALSE, weight |-> Weigh(X, idf)]}

\* get_similarity_score after fit_transform: the cosine of the two rows, or
\* the 0.0 of the except clause
SimilarityOf(tfidf_matrix) ==
    IF tfidf_matrix.raised THEN 0
    ELSE cosine_similarity(tfidf_matrix.weight)[1]

\* GameTitleMatcher.get_similarity_score (utils), scaled
get_similarity_score(im, title1, title2) ==
    IF NormalizedTitle(im, title1) = <<>> \/ NormalizedTitle(im, title2) = <<>>
    THEN 0
    ELSE SimilarityOf(fit_transform(<<NormalizedTitle(im, title1),
                                      NormalizedTitle(im, title2)>>))

\* the calls the threads make: find_best_match(s, c) or
\* get_similarity_score(s, c[1])
MatchCall(s, c) == [kind |-> "match", s |-> s, c |-> c]
ScoreCall(s, t) == [kind |-> "score", s |-> s, c |-> <<t>>]

ThreadCalls ==
    { MatchCall(T_fifa_street, <<T_FIFA_23>>),
      MatchCall(T_fifa_street, <<T_fifa_street>>),
      MatchCall(T_FIFA_23, <<T_FIFA_24>>),
      MatchCall(T_FIFA_23, <<T_FIFA_24, T_FIFA_23>>),
      MatchCall(T_23, <<T_23>>),
      MatchCall(T_Witcher_3, <<T_Witcher_III>>),
      ScoreCall(T_fifa_street, T_FIFA_23) }

\* the (index, score) a call gives, as the threads hold it
AsResult(r) == [idx |-> r.idx, score |-> r.score, exc |-> r.exc]
ScoreResult(score) == [idx |-> None, score |-> score, exc |-> FALSE]

\* what a call holds in its local variables once the terms of its corpus are
\* counted: whether it got to fit_transform (guard), valid_candidates, the
\* number of features, the counts X, and the idf of its own corpus
CountedLocals(guard, valid, terms, feats) ==
    [guard |-> guard,
     valid |-> valid,
     nfeat |-> Len(feats),
     X |-> CountRows(terms, feats),
     idf |-> IdfVector(terms, feats)]

LocalsOfTerms(guard, valid, terms) ==
    CountedLocals(guard, valid, terms, feature_names(terms))

\* find_best_match up to the term counts, from valid_candidates on
PrepareMatch(im, call, valid) ==
    LocalsOfTerms(call.s # <<>> /\ call.c # <<>> /\ valid # <<>>, valid,
                  Analyze(all_texts(NormalizedTitle(im, call.s), valid)))

\* get_similarity_score up to the term counts, from the normal forms on
PrepareScore(normalized1, normalized2) ==
    LocalsOfTerms(normalized1 # <<>> /\ normalized2 # <<>>, <<>>,
                  Analyze(<<normalized1, normalized2>>))

Prepare(im, call) ==
    IF call.kind = "match"
    THEN PrepareMatch(im, call, valid_candidates(normalize_all(im, call.c)))
    ELSE PrepareScore(NormalizedTitle(im, call.s),
                      NormalizedTitle(im, call.c[1]))

Prepared ==
    [im \in {"utils", "extractor"} |->
        ([call \in ThreadCalls |-> Prepare(im, call)] @@ <<>>)] @@ <<>>

\* the call fits the shared vectorizer: the vector strategy is on, the guards
\* pass and the vocabulary of the corpus is not empty
ReachesFit(im, en, call, locals) ==
    /\ call.kind = "match" => (im = "utils" \/ en)
    /\ locals.guard
    /\ locals.nfeat > 0

\* the result of a call that never fits the vectorizer: early return, token
\* strategy, or ValueError of the empty vocabulary
ResultWithoutFit(im, en, threshold, call) ==
    IF call.kind = "match"
    THEN AsResult(find_best_match(im, en, threshold, call.s, call.c))
    ELSE ScoreResult(0)

\* the statements after fit_transform, or the except clause
ResultOfTransform(im, threshold, call, valid, out) ==
    IF call.kind = "match"
    THEN IF out.raised THEN AsResult(OnVectorError(im, call.s, call.c))
         ELSE AsResult(SelectBest(threshold, valid,
                                  cosine_similarity(out.weight), {}))
    ELSE ScoreResult(SimilarityOf(out))

\* thread t enters call: the code up to the term counts of fit_transform
Begin(t, call) ==
    /\ tpc[t] = "idle"
    /\ call.kind = "score" => impl = "utils"
    /\ tcall' = [tcall EXCEPT ![t] = call]
    /\ tclean' = [u \in Threads |->
                    IF u = t
                    THEN \A v \in Threads \ {t} : tpc[v] \in {"idle", "returned"}
                    ELSE tclean[u] /\ tpc[u] \in {"idle", "returned"}]
    /\ \E locals \in {Prepared[impl][call]} :
          IF ReachesFit(impl, enabled, call, locals)
          THEN /\ tpc' = [tpc EXCEPT ![t] = "counted"]
               /\ tlocal' = [tlocal EXCEPT ![t] = locals]
               /\ tres' = tres
          ELSE /\ tpc' = [tpc EXCEPT ![t] = "returned"]
               /\ tlocal' = tlocal
               /\ tres' = [tres EXCEPT ![t] =
                             ResultWithoutFit(impl, enabled,
                                              similarity_threshold, call)]
    /\ UNCHANGED shared_idf
    /\ UNCHANGED matcherVars
    /\ UNCHANGED normVars
    /\ UNCHANGED floatVars
    /\ UNCHANGED pipelineVars

\* faulty variant of Fit: a vectorizer that is fitted already is not fitted
\* again
FitOnce(t) ==
    /\ tpc[t] = "counted"
    /\ shared_idf' = IF shared_idf = <<>> THEN tlocal[t].idf ELSE shared_idf
    /\ tpc' = [tpc EXCEPT ![t] = "fitted"]
    /\ UNCHANGED <<tcall, tres, tclean, tlocal>>
    /\ UNCHANGED matcherVars
    /\ UNCHANGED normVars
    /\ UNCHANGED floatVars
    /\ UNCHANGED pipelineVars

\* thread t fits: idf_ of the shared vectorizer becomes that of its corpus
Fit(t) ==
    /\ tpc[t] = "counted"
    /\ shared_idf' = tlocal[t].idf
    /\ tpc' = [tpc EXCEPT ![t] = "fitted"]
    /\ UNCHANGED <<tcall, tres, tclean, tlocal>>
    /\ UNCHANGED matcherVars
    /\ UNCHANGED normVars
    /\ UNCHANGED floatVars
    /\ UNCHANGED pipelineVars

\* thread t transforms its counts with the idf_ the vectorizer holds, scores
\* and returns
Transform(t) ==
    /\ tpc[t] = "fitted"
    /\ \E out \in TransformOutcomes(tlocal[t].X, shared_idf) :
          tres' = [tres EXCEPT ![t] =
                     ResultOfTransform(impl, similarity_threshold, tcall[t],
                                       tlocal[t].valid, out)]
    /\ tpc' = [tpc EXCEPT ![t] = "returned"]
    /\ tlocal' = [tlocal EXCEPT ![t] = NoLocals]
    /\ UNCHANGED <<shared_idf, tcall, tclean>>
    /\ UNCHANGED matcherVars
    /\ UNCHANGED normVars
    /\ UNCHANGED floatVars
    /\ UNCHANGED pipelineVars

\* the caller of thread t consumes the result
Finish(t) ==
    /\ tpc[t] = "returned"
    /\ tpc' = [tpc EXCEPT ![t] = "idle"]
    /\ tcall' = [tcall EXCEPT ![t] = NoCall]
    /\ tres' = [tres EXCEPT ![t] = NoResult]
    /\ tclean' = [tclean EXCEPT ![t] = TRUE]
    /\ UNCHANGED <<shared_idf, tlocal>>
    /\ UNCHANGED matcherVars
    /\ UNCHANGED normVars
    /\ UNCHANGED floatVars
    /\ UNCHANGED pipelineVars

InitThreads ==
    /\ impl \in {"utils", "extractor"}
    /\ similarity_threshold \in Thresholds
    /\ enabled \in (IF impl = "utils" THEN {TRUE} ELSE BOOLEAN)
    /\ vectorizer = {}
    /\ pc = "idle"
    /\ search_title = <<>>
    /\ candidate_titles = <<>>
    /\ result = NoResult
    /\ path = NoPath
    /\ prev_failed = FALSE
    /\ title = <<>>
    /\ npc = "off"
    /\ once = <<>>
    /\ twice = <<>>
    /\ ThreadsIdle
    /\ fused = FALSE
    /\ FloatIdle
    /\ PipelineIdle

NextThreads ==
    \/ \E t \in Threads, call \in ThreadCalls : Begin(t, call)
    \/ \E t \in Threads : Fit(t)
    \/ \E t \in Threads : Transform(t)
    \/ \E t \in Threads : Finish(t)

SpecThreads == InitThreads /\ [][NextThreads]_vars

-----------------------------------------------------------------------------
(* The score of the vector strategy in the arithmetic of the program: the   *)
(* entries of tfidf_matrix and the similarities are binary64 numbers, and   *)
(* every operation on them rounds to the nearest one.                       *)

\* naturals of any size: their binary digits, least significant first, the
\* last digit 1 (the empty sequence is 0)
Zeros(n) == [k \in 1..n |-> 0]

Bit(a, k) == IF k <= Len(a) THEN a[k] ELSE 0

\* a without its leading zeros
Trim(a) ==
    IF \A i \in 1..Len(a) : a[i] = 0 THEN <<>>
    ELSE SubSeq(a, 1, CHOOSE i \in 1..Len(a) :
                         a[i] = 1 /\ \A j \in (i + 1)..Len(a) : a[j] = 0)

RECURSIVE Bits(_)
Bits(c) == IF c = 0 THEN <<>> ELSE <<c % 2>> \o Bits(c \div 2)

Only(S) == CHOOSE x \in S : TRUE

\* Step applied to st for lo, lo + 1, ..., hi in turn
RECURSIVE FoldRange(_, _, _, _)
FoldRange(Step(_, _), lo, hi, st) ==
    IF lo > hi THEN st
    ELSE IF lo = hi THEN Step(st, lo)
    ELSE Only({FoldRange(Step, (lo + hi) \div 2 + 1, hi, half) :
                  half \in {FoldRange(Step, lo, (lo + hi) \div 2, st)}})

\* the number sum(c[i] * 2^(i-1)) of integer entries c[i]
Carry(c) ==
    LET Step(st, i) == [d |-> Append(st.d, (c[i] + st.k) % 2),
                        k |-> (c[i] + st.k) \div 2]
        end == FoldRange(Step, 1, Len(c), [d |-> <<>>, k |-> 0])
    IN  end.d \o Bits(end.k)

Longest(a, b) == IF Len(a) >= Len(b) THEN Len(a) ELSE Len(b)

BAdd(a, b) == Carry([i \in 1..Longest(a, b) |-> Bit(a, i) + Bit(b, i)])

\* a - b, for a >= b
BSub(a, b) == Trim(Carry([i \in 1..Len(a) |-> a[i] - Bit(b, i)]))

BMul(a, b) ==
    IF a = <<>> \/ b = <<>> THEN <<>>
    ELSE Carry([i \in 1..(Len(a) + Len(b) - 1) |->
                  Cardinality({j \in 1..Len(a) :
                                  /\ i - j + 1 \in 1..Len(b)
                                  /\ a[j] = 1
                                  /\ b[i - j + 1] = 1})])

BLeq(a, b) ==
    \/ Len(a) < Len(b)
    \/ /\ Len(a) = Len(b)
       /\ \A i \in 1..Len(a) :
             (a[i] > b[i]) => \E j \in (i + 1)..Len(a) : a[j] < b[j]

\* quotient and remainder of a by b > 0: long division, from the first digit
\* of a to its last
DivMod(a, b) ==
    LET Step(st, t) ==
            LET r2 == Trim(<<a[Len(a) + 1 - t]>> \o st.r)
            IN  IF BLeq(b, r2)
                THEN [q |-> <<1>> \o st.q, r |-> BSub(r2, b)]
                ELSE [q |-> Trim(<<0>> \o st.q), r |-> r2]
    IN  FoldRange(Step, 1, Len(a), [q |-> <<>>, r |-> <<>>])

\* integer square root s of n and the remainder n - s*s, two digits of n at
\* a time
SqrtRem(n) ==
    LET pairs == (Len(n) + 1) \div 2
        Step(st, t) ==
            LET p == pairs + 1 - t
                r4 == Trim(<<n[2 * p - 1], Bit(n, 2 * p)>> \o st.r)
                t4 == Trim(<<1, 0>> \o st.s)
            IN  IF BLeq(t4, r4)
                THEN [s |-> <<1>> \o st.s, r |-> BSub(r4, t4)]
                ELSE [s |-> Trim(<<0>> \o st.s), r |-> r4]
    IN  FoldRange(Step, 1, pairs, [s |-> <<>>, r |-> <<>>])

\* A binary64 number has Mantissa digits; an exact intermediate value has as
\* many digits as it needs.
Mantissa == 53

ExactMul(a, b) == [m |-> BMul(a.m, b.m), e |-> a.e + b.e]

ExactAdd(a, b) ==
    IF a.m = <<>> THEN b
    ELSE IF b.m = <<>> THEN a
    ELSE IF a.e <= b.e
    THEN [m |-> BAdd(a.m, Zeros(b.e - a.e) \o b.m), e |-> a.e]
    ELSE [m |-> BAdd(Zeros(a.e - b.e) \o a.m, b.m), e |-> b.e]

\* x rounded to the nearest number of Mantissa digits, ties to even
Round(x) ==
    IF x.m = <<>> THEN x
    ELSE IF Len(x.m) <= Mantissa
    THEN [m |-> Zeros(Mantissa - Len(x.m)) \o x.m,
          e |-> x.e - (Mantissa - Len(x.m))]
    ELSE LET d == Len(x.m) - Mantissa
             kept == SubSeq(x.m, d + 1, Len(x.m))
             up == /\ x.m[d] = 1
                   /\ \/ kept[1] = 1
                      \/ \E i \in 1..(d - 1) : x.m[i] = 1
             m2 == IF up THEN BAdd(kept, <<1>>) ELSE kept
         IN  IF Len(m2) > Mantissa
             THEN [m |-> Tail(m2), e |-> x.e + d + 1]
             ELSE [m |-> m2, e |-> x.e + d]

\* a quotient or root with its last digit set when a remainder is left, so
\* that rounding sees the value is inexact
Sticky(q, r) == IF r = <<>> THEN q ELSE <<1>> \o Tail(q)

\* the float of a whole number
FromNat(c) == Round([m |-> Bits(c), e |-> 0])

FMul(a, b) == Round(ExactMul(a, b))
FAdd(a, b) == Round(ExactAdd(a, b))

\* digits a quotient or a root is computed to beyond those of its operand
Guard == 56

\* a / b, correctly rounded
FDiv(a, b) ==
    LET d == DivMod(Zeros(Guard) \o a.m, b.m)
    IN  Round([m |-> Sticky(d.q, d.r), e |-> a.e - b.e - Guard])

\* sqrt(a), correctly rounded
FSqrt(a) ==
    IF a.m = <<>> THEN a
    ELSE LET s == IF (a.e + Guard) % 2 = 0 THEN Guard ELSE Guard + 1
             d == SqrtRem(Zeros(s) \o a.m)
         IN  Round([m |-> Sticky(d.s, d.r), e |-> (a.e - s) \div 2])

\* a <= b
FLeq(a, b) ==
    \/ a.m = <<>>
    \/ /\ b.m # <<>>
       /\ \/ a.e < b.e
          \/ a.e = b.e /\ BLeq(a.m, b.m)

\* acc + x * y, rounded once (fused) or after each operation
MulAdd(fuse, acc, x, y) ==
    IF fuse THEN Round(ExactAdd(acc, ExactMul(x, y)))
    ELSE FAdd(acc, FMul(x, y))

One == FromNat(1)

\* the greatest of the scores xs
FMaxOf(xs) ==
    xs[CHOOSE k \in 1..Len(xs) : \A j \in 1..Len(xs) : FLeq(xs[j], xs[k])]

\* every term of the corpus occurs in every document, so that every entry of
\* idf_ is ln((1 + n) / (1 + n)) + 1 = 1.0
UniformIdf(X) == \A d \in 1..Len(X) : \A j \in 1..Len(X[d]) : X[d][j] > 0

\* the rows of counts X weighted by an idf_ of 1.0
WeighUniform(X) ==
    [d \in 1..Len(X) |->
        [j \in 1..Len(X[d]) |-> FMul(FromNat(X[d][j]), One)] \o <<>>] \o <<>>

Place(p, r, j) == [pass |-> p, row |-> r, pos |-> j]

\* find_best_match reaches fit_transform: the counts of the corpus weighted
\* by idf_, before the rows are normalised
FBegin(call) ==
    /\ fpc = "idle"
    /\ call.kind = "match"
    /\ \E locals \in {Prepared[impl][call]} :
          /\ ReachesFit(impl, enabled, call, locals)
          /\ UniformIdf(locals.X)
          /\ frows' = WeighUniform(locals.X)
    /\ fcall' = call
    /\ fpc' = "sumsq"
    /\ fat' = Place(1, 1, 1)
    /\ facc' = Zero
    /\ fscores' = <<>>
    /\ fbest_score' = Zero
    /\ UNCHANGED fused
    /\ UNCHANGED matcherVars
    /\ UNCHANGED normVars
    /\ UNCHANGED threadVars
    /\ UNCHANGED pipelineVars

\* l2 normalisation of a row, first step: the sum of the squares of its
\* entries, one entry at a time.  Pass 1 is the normalisation at the end of
\* fit_transform, pass 2 the one cosine_similarity applies to its arguments
SumSquares ==
    /\ fpc = "sumsq"
    /\ facc' = MulAdd(fused, facc, frows[fat.row][fat.pos],
                      frows[fat.row][fat.pos])
    /\ IF fat.pos < Len(frows[fat.row])
       THEN /\ fat' = Place(fat.pass, fat.row, fat.pos + 1)
            /\ fpc' = fpc
       ELSE /\ fat' = Place(fat.pass, fat.row, 1)
            /\ fpc' = "root"
    /\ UNCHANGED <<fused, fcall, frows, fscores, fbest_score>>
    /\ UNCHANGED matcherVars
    /\ UNCHANGED normVars
    /\ UNCHANGED threadVars
    /\ UNCHANGED pipelineVars

\* second step: the norm of the row is the square root of the sum
Root ==
    /\ fpc = "root"
    /\ facc' = FSqrt(facc)
    /\ fpc' = "scale"
    /\ UNCHANGED <<fused, fcall, frows, fat, fscores, fbest_score>>
    /\ UNCHANGED matcherVars
    /\ UNCHANGED normVars
    /\ UNCHANGED threadVars
    /\ UNCHANGED pipelineVars

\* third step: every entry of the row is divided by the norm; after the last
\* entry the next row follows, after the last row the second pass, and after
\* the second pass the products of the search row with the candidate rows
ScaleStep ==
    /\ fpc = "scale"
    /\ frows' = [frows EXCEPT ![fat.row][fat.pos] = FDiv(@, facc)]
    /\ IF fat.pos < Len(frows[fat.row])
       THEN /\ fat' = Place(fat.pass, fat.row, fat.pos + 1)
            /\ fpc' = fpc
            /\ facc' = facc
       ELSE /\ facc' = Zero
            /\ IF fat.row < Len(frows)
               THEN fat' = Place(fat.pass, fat.row + 1, 1) /\ fpc' = "sumsq"
               ELSE IF fat.pass = 1
               THEN fat' = Place(2, 1, 1) /\ fpc' = "sumsq"
               ELSE fat' = Place(2, 2, 1) /\ fpc' = "dot"
    /\ UNCHANGED <<fused, fcall, fscores, fbest_score>>
    /\ UNCHANGED matcherVars
    /\ UNCHANGED normVars
    /\ UNCHANGED threadVars
    /\ UNCHANGED pipelineVars

\* the product of the search row with a candidate row, one entry at a time;
\* after the last candidate, best_score = similarities[argmax(similarities)]
\* is what the call returns, accepted or not
DotStep ==
    /\ fpc = "dot"
    /\ \E sum \in {MulAdd(fused, facc, frows[1][fat.pos],
                          frows[fat.row][fat.pos])} :
          IF fat.pos < Len(frows[fat.row])
          THEN /\ facc' = sum
               /\ fat' = Place(fat.pass, fat.row, fat.pos + 1)
               /\ UNCHANGED <<fpc, fscores, fbest_score>>
          ELSE /\ facc' = Zero
               /\ fscores' = Append(fscores, sum)
               /\ IF fat.row < Len(frows)
                  THEN /\ fat' = Place(fat.pass, fat.row + 1, 1)
                       /\ UNCHANGED <<fpc, fbest_score>>
                  ELSE /\ fat' = NoPlace
                       /\ fpc' = "returned"
                       /\ fbest_score' = FMaxOf(Append(fscores, sum))
    /\ UNCHANGED <<fused, fcall, frows>>
    /\ UNCHANGED matcherVars
    /\ UNCHANGED normVars
    /\ UNCHANGED threadVars
    /\ UNCHANGED pipelineVars

\* the caller consumes the result
FFinish ==
    /\ fpc = "returned"
    /\ fpc' = "idle"
    /\ fcall' = NoCall
    /\ frows' = <<>>
    /\ fat' = NoPlace
    /\ facc' = Zero
    /\ fscores' = <<>>
    /\ fbest_score' = Zero
    /\ UNCHANGED fused
    /\ UNCHANGED matcherVars
    /\ UNCHANGED normVars
    /\ UNCHANGED threadVars
    /\ UNCHANGED pipelineVars

InitFloat ==
    /\ impl \in {"utils", "extractor"}
    /\ similarity_threshold = DefaultThreshold
    /\ enabled = TRUE
    /\ vectorizer = {}
    /\ pc = "idle"
    /\ search_title = <<>>
    /\ candidate_titles = <<>>
    /\ result = NoResult
    /\ path = NoPath
    /\ prev_failed = FALSE
    /\ title = <<>>
    /\ npc = "off"
    /\ once = <<>>
    /\ twice = <<>>
    /\ ThreadsIdle
    /\ fused \in BOOLEAN
    /\ FloatIdle
    /\ PipelineIdle

NextFloat ==
    \/ \E call \in ThreadCalls : FBegin(call)
    \/ SumSquares
    \/ Root
    \/ ScaleStep
    \/ DotStep
    \/ FFinish

SpecFloat == InitFloat /\ [][NextFloat]_vars

-----------------------------------------------------------------------------
(* Price scraping: a workflow selects the games to price, scrapes them one
   after the other and saves the result rows to best_price_pc.  "api" is
   PriceScraper behind DatabaseManager (run_complete_pipeline, incremental
   update), "tfidf" is PriceScraperTFIDF of price_scraper_tfidf.py behind
   DatabaseManager, "selenium" is main of run_pipeline.py *)

Workflows == {"api", "tfidf", "selenium"}
\* SQL NULL, Python None, of a price
Null == "NULL"
\* the game whose title is NULL: "title": g.get("name") of a game with no name
Untitled == 3
GameTitle == <<T_fifa_street, T_FIFA_23, T_empty>>
\* the literal 0.5 of search_isthereanydeal and the literal 0.7 of
\* generate_mock_price, scaled
ApiThreshold == 500
MockScore == 700
\* rows best_price_pc is let to grow to while it has no unique key
MaxRows == 3

Smallest(S) == CHOOSE x \in S : \A y \in S : x <= y
RECURSIVE Ascending(_)
Ascending(S) ==
    IF S = {} THEN <<>>
    ELSE <<Smallest(S)>> \o Ascending(S \ {Smallest(S)})

\* the rows of a table that belong to game g
RowsOf(table, g) == {i \in 1..Len(table) : table[i].game_id_rawg = g}

\* DatabaseManager.get_games_for_price_update: the games no row of
\* best_price_pc joins to; nothing without a connection
get_games_for_price_update(connected, catalogue, table) ==
    IF ~connected THEN {}
    ELSE {g \in catalogue : RowsOf(table, g) = {}}

\* fetch_games_to_price of run_pipeline.py: the games with no row or with a
\* row last updated more than 7 days ago
fetch_games_to_price(connected, catalogue, table) ==
    IF ~connected THEN {}
    ELSE {g \in catalogue :
            \/ RowsOf(table, g) = {}
            \/ \E i \in RowsOf(table, g) : table[i].old}

\* what a price site answers for a game: the titles it lists (none when the
\* request fails or finds nothing) and whether the page it leads to shows a
\* price
Listings(g) ==
    {call.c : call \in {k \in ThreadCalls :
                          k.kind = "match" /\ k.s = GameTitle[g]}}
Answers(g) == [listing : Listings(g) \cup {<<>>}, priced : BOOLEAN]

\* a row of the frame a scraper returns, with what the matcher did for it:
\* whether find_best_match was called and what it returned
ResultRow(g, price, score, consulted, verdict) ==
    [game_id_rawg |-> g, price |-> price, similarity_score |-> score,
     consulted |-> consulted, verdict |-> verdict]

\* the candidates a scraper hands to title_matcher.find_best_match:
\* PriceScraper the title of data[0], PriceScraperTFIDF the titles listed
Asked(w, answer) ==
    IF w = "api" /\ answer.listing # <<>> THEN <<answer.listing[1]>>
    ELSE answer.listing

\* PriceScraper.search_isthereanydeal: price_data, or None (found = FALSE);
\* v is what title_matcher.find_best_match(title, [game_title]) returns
search_isthereanydeal(answer, v) ==
    IF answer.listing = <<>>
    THEN [found |-> FALSE, similarity_score |-> 0, consulted |-> FALSE,
          verdict |-> NoResult]
    ELSE [found |-> v.score >= ApiThreshold /\ answer.priced,
          similarity_score |-> v.score, consulted |-> TRUE, verdict |-> v]

\* the body of the loop of PriceScraper.scrape_prices for one titled game
PriceScraperRow(use_api, g, answer, v) ==
    LET price_data ==
            IF use_api THEN search_isthereanydeal(answer, v)
            ELSE [found |-> FALSE, similarity_score |-> 0,
                  consulted |-> FALSE, verdict |-> NoResult]
    IN IF price_data.found
       THEN ResultRow(g, "site", price_data.similarity_score, TRUE,
                      price_data.verdict)
       ELSE ResultRow(g, "mock", MockScore, price_data.consulted,
                      price_data.verdict)

\* PriceScraperTFIDF._search_and_find_best_match: (game_url, score); v is
\* what title_matcher.find_best_match(search_title, candidates) returns
search_and_find_best_match(answer, v) ==
    IF answer.listing = <<>>
    THEN [url |-> FALSE, score |-> 0, consulted |-> FALSE,
          verdict |-> NoResult]
    ELSE [url |-> v.idx # None, score |-> v.score, consulted |-> TRUE,
          verdict |-> v]

\* the body of the loop of PriceScraperTFIDF.scrape_prices for one titled game
TfidfRow(g, answer, v) ==
    LET m == search_and_find_best_match(answer, v)
    IN ResultRow(g,
                 IF m.url /\ m.score >= DefaultThreshold /\ answer.priced
                 THEN "site" ELSE Null,
                 m.score, m.consulted, m.verdict)

\* the body of the loop of scrape_best_prices for one titled game: the first
\* title listed is clicked; the rows have no similarity_score
SeleniumRow(g, answer) ==
    ResultRow(g,
              IF answer.listing # <<>> /\ answer.priced THEN "site" ELSE Null,
              None, FALSE, NoResult)

RowFor(w, use_api, g, answer, v) ==
    IF w = "api" THEN PriceScraperRow(use_api, g, answer, v)
    ELSE IF w = "tfidf" THEN TfidfRow(g, answer, v)
    ELSE SeleniumRow(g, answer)

HasDuplicates(table) ==
    \E i, j \in 1..Len(table) :
        i < j /\ table[i].game_id_rawg = table[j].game_id_rawg

\* setup_unique_constraints: whether best_price_pc has the key afterwards;
\* ALTER TABLE fails on duplicate entries, or for another reason (~allowed)
setup_unique_constraints(allowed, present, table) ==
    IF present THEN TRUE
    ELSE IF HasDuplicates(table) THEN FALSE
    ELSE allowed

\* INSERT ... ON DUPLICATE KEY UPDATE of one row: the statement lists no
\* similarity_score, and only a unique key makes an existing row a duplicate
Upsert(unique, table, row) ==
    IF unique /\ RowsOf(table, row.game_id_rawg) # {}
    THEN [i \in 1..Len(table) |->
            IF i \in RowsOf(table, row.game_id_rawg)
            THEN [table[i] EXCEPT !.price = row.price, !.old = FALSE]
            ELSE table[i]]
    ELSE Append(table, [game_id_rawg |-> row.game_id_rawg,
                        price |-> row.price, similarity_score |-> None,
                        old |-> FALSE])

RECURSIVE UpsertAll(_, _, _)
UpsertAll(unique, table, rows) ==
    IF rows = <<>> THEN table
    ELSE UpsertAll(unique, Upsert(unique, table, Head(rows)), Tail(rows))

\* save_prices and save_prices_to_mysql: the table afterwards
save_prices(connected, unique, table, rows) ==
    IF rows = <<>> \/ ~connected THEN table
    ELSE UpsertAll(unique, table, rows)

\* main of run_pipeline.py up to setup_unique_constraints
StartMain(allowed) ==
    /\ rpc = "idle"
    /\ unique_price_game \/ Len(best_price_pc) < MaxRows
    /\ run' = "selenium"
    /\ rpc' = "main"
    /\ unique_price_game' =
           setup_unique_constraints(allowed, unique_price_game, best_price_pc)
    /\ UNCHANGED <<best_price_pc, games, last_saved, scraper_enabled, todo,
                   results, driver>>
    /\ UNCHANGED nonPriceVars

\* the workflow selects the games to price
SelectGames(w, connected) ==
    /\ IF w = "selenium" THEN rpc = "main" ELSE rpc = "idle"
    /\ run' = w
    /\ rpc' = "selected"
    /\ todo' = Ascending(
           IF w = "selenium"
           THEN fetch_games_to_price(connected, games, best_price_pc)
           ELSE get_games_for_price_update(connected, games, best_price_pc))
    /\ UNCHANGED <<best_price_pc, unique_price_game, games, last_saved,
                   scraper_enabled, results, driver>>
    /\ UNCHANGED nonPriceVars

\* nothing to price (or PriceScraperTFIDF is disabled): the workflow ends
\* without scraping or saving
NothingToScrape ==
    /\ rpc = "selected"
    /\ todo = <<>> \/ (run = "tfidf" /\ ~scraper_enabled)
    /\ rpc' = "idle"
    /\ run' = "none"
    /\ todo' = <<>>
    /\ UNCHANGED <<best_price_pc, unique_price_game, games, last_saved,
                   scraper_enabled, results, driver>>
    /\ UNCHANGED nonPriceVars

\* scrape_prices / scrape_best_prices up to the loop.  webdriver.Chrome gives
\* a driver ("created"), raises ("no_browser"), or gives a driver whose
\* set_page_load_timeout raises ("unconfigured"); _setup_driver turns an
\* exception into None and scrape_prices then returns an empty frame
BeginScrape(outcome) ==
    /\ rpc = "selected"
    /\ todo # <<>>
    /\ run = "tfidf" => scraper_enabled
    /\ IF run = "api"
       THEN /\ outcome = "created"
            /\ rpc' = "scraping"
            /\ UNCHANGED driver
       ELSE /\ driver' = IF outcome = "no_browser" THEN "none" ELSE "live"
            /\ rpc' = IF outcome = "created" THEN "scraping"
                      ELSE IF run = "tfidf" THEN "scraped"
                      ELSE "raised"
    /\ UNCHANGED <<best_price_pc, unique_price_game, games, last_saved, run,
                   scraper_enabled, todo, results>>
    /\ UNCHANGED nonPriceVars

\* one pass of the loop over the games.  A NULL title raises AttributeError
\* outside the per-game try: PriceScraper and scrape_best_prices let it
\* propagate, PriceScraperTFIDF logs it, quits the driver and returns the rows
\* it has
ScrapeGame(answer) ==
    /\ rpc = "scraping"
    /\ todo # <<>>
    /\ answer \in Answers(Head(todo))
    /\ IF Head(todo) = Untitled
       THEN /\ rpc' = IF run = "tfidf" THEN "scraped" ELSE "raised"
            /\ driver' = IF run = "tfidf" THEN "quit" ELSE driver
            /\ UNCHANGED <<todo, results>>
       ELSE /\ \E r \in {find_best_match(
                            IF run = "api" THEN "extractor" ELSE "utils",
                            enabled, DefaultThreshold, GameTitle[Head(todo)],
                            Asked(run, answer))} :
                   results' = Append(results,
                                     RowFor(run, scraper_enabled, Head(todo),
                                            answer, AsResult(r)))
            /\ todo' = Tail(todo)
            /\ UNCHANGED <<rpc, driver>>
    /\ UNCHANGED <<best_price_pc, unique_price_game, games, last_saved, run,
                   scraper_enabled>>
    /\ UNCHANGED nonPriceVars

\* the loop is over: the driver is quit and the frame returned
EndScrape ==
    /\ rpc = "scraping"
    /\ todo = <<>>
    /\ rpc' = "scraped"
    /\ driver' = IF run = "api" THEN driver ELSE "quit"
    /\ UNCHANGED <<best_price_pc, unique_price_game, games, last_saved, run,
                   scraper_enabled, todo, results>>
    /\ UNCHANGED nonPriceVars

\* KeyboardInterrupt during the loop: no except Exception catches it; the
\* finally of PriceScraperTFIDF.scrape_prices runs
Interrupt ==
    /\ rpc = "scraping"
    /\ rpc' = "raised"
    /\ driver' = IF run = "tfidf" THEN "quit" ELSE driver
    /\ UNCHANGED <<best_price_pc, unique_price_game, games, last_saved, run,
                   scraper_enabled, todo, results>>
    /\ UNCHANGED nonPriceVars

\* the frame is saved, if it has rows, and the workflow ends
SavePrices(connected) ==
    /\ rpc = "scraped"
    /\ best_price_pc' =
           save_prices(connected, unique_price_game, best_price_pc, results)
    /\ last_saved' =
           [g \in GameIds |->
              IF connected /\ \E i \in 1..Len(results) :
                                  results[i].game_id_rawg = g
              THEN LET row == results[CHOOSE i \in 1..Len(results) :
                                          results[i].game_id_rawg = g]
                   IN [saved |-> TRUE, price |-> row.price,
                       similarity_score |-> row.similarity_score]
              ELSE last_saved[g]]
    /\ rpc' = "idle"
    /\ run' = "none"
    /\ todo' = <<>>
    /\ results' = <<>>
    /\ driver' = "none"
    /\ UNCHANGED <<unique_price_game, games, scraper_enabled>>
    /\ UNCHANGED nonPriceVars

\* the exception reaches the workflow, which ends without saving
Abandon ==
    /\ rpc = "raised"
    /\ rpc' = "idle"
    /\ run' = "none"
    /\ todo' = <<>>
    /\ results' = <<>>
    /\ driver' = "none"
    /\ UNCHANGED <<best_price_pc, unique_price_game, games, last_saved,
                   scraper_enabled>>
    /\ UNCHANGED nonPriceVars

\* seven days go by between two runs
WeekPasses ==
    /\ rpc = "idle"
    /\ \E i \in 1..Len(best_price_pc) : ~best_price_pc[i].old
    /\ best_price_pc' = [i \in 1..Len(best_price_pc) |->
                           [best_price_pc[i] EXCEPT !.old = TRUE]]
    /\ UNCHANGED <<unique_price_game, games, last_saved, run, rpc,
                   scraper_enabled, todo, results, driver>>
    /\ UNCHANGED nonPriceVars

DriverOutcomes == {"created", "no_browser", "unconfigured"}
Catalogues == {{1}, {2}, {1, Untitled}}

InitPrices ==
    /\ impl = "extractor"
    /\ similarity_threshold = DefaultThreshold
    /\ enabled \in BOOLEAN
    /\ vectorizer = {}
    /\ pc = "idle"
    /\ search_title = <<>>
    /\ candidate_titles = <<>>
    /\ result = NoResult
    /\ path = NoPath
    /\ prev_failed = FALSE
    /\ title = <<>>
    /\ npc = "off"
    /\ once = <<>>
    /\ twice = <<>>
    /\ ThreadsIdle
    /\ fused = FALSE
    /\ FloatIdle
    /\ best_price_pc = <<>>
    /\ unique_price_game \in BOOLEAN
    /\ games \in Catalogues
    /\ last_saved = [g \in GameIds |-> Never]
    /\ run = "none"
    /\ rpc = "idle"
    /\ scraper_enabled \in BOOLEAN
    /\ todo = <<>>
    /\ results = <<>>
    /\ driver = "none"
    /\ GamesIdle
    /\ FetchIdle

NextPrices ==
    \/ \E allowed \in BOOLEAN : StartMain(allowed)
    \/ \E w \in Workflows, connected \in BOOLEAN : SelectGames(w, connected)
    \/ NothingToScrape
    \/ \E outcome \in DriverOutcomes : BeginScrape(outcome)
    \/ \E g \in GameIds : \E answer \in Answers(g) : ScrapeGame(answer)
    \/ EndScrape
    \/ Interrupt
    \/ \E connected \in BOOLEAN : SavePrices(connected)
    \/ Abandon
    \/ WeekPasses

SpecPrices == InitPrices /\ [][NextPrices]_vars

-----------------------------------------------------------------------------
(* What a call should give, computed candidate by candidate *)

\* the positions (0-based) of the candidates that survive exclusion, ascending
SurvivorSeq(im, c) ==
    LET Survives(i) == NormalizedTitle(im, c[i + 1]) # <<>>
    IN  SelectSeq([k \in 1..Len(c) |-> k - 1] \o <<>>, Survives)

Survivors(im, c) == ToSet(SurvivorSeq(im, c))

\* the corpus of the vector strategy: the search title, then the survivors
Corpus(im, s, c, sv) ==
    <<NormalizedTitle(im, s)>>
        \o ([k \in 1..Len(sv) |-> NormalizedTitle(im, c[sv[k] + 1])] \o <<>>)

\* the score of every survivor in the strategy by, in the order of sv
ScoresIn(by, im, s, c, sv) ==
    IF by = "tfidf"
    THEN cosine_similarity(fit_transform(Corpus(im, s, c, sv)).weight)
    ELSE [k \in 1..Len(sv) |->
            Jaccard(WordsOf(im, s), WordsOf(im, c[sv[k] + 1]))] \o <<>>

ScoresOf(by, im, s, c) == ScoresIn(by, im, s, c, SurvivorSeq(im, c))

\* the greatest entry of a non-empty sequence of scores
MaxOf(xs) == CHOOSE m \in ToSet(xs) : \A x \in ToSet(xs) : x <= m

\* the first position that holds the greatest entry
FirstMaxPos(xs) ==
    CHOOSE k \in 1..Len(xs) :
        xs[k] = MaxOf(xs) /\ \A j \in 1..Len(xs) : xs[j] = MaxOf(xs) => k <= j

\* the candidates without those that normalise to the empty string
WithoutEmpty(im, c) ==
    LET Survives(t) == NormalizedTitle(im, t) # <<>>
    IN  SelectSeq(c, Survives)

Returned == pc = "returned"
Scored == Returned /\ path.by \in {"tfidf", "simple"}
\* the acceptance threshold of the strategy that produced the result
ThresholdOf(by) == IF by = "tfidf" THEN similarity_threshold ELSE SimpleThreshold

-----------------------------------------------------------------------------
(* Matcher claims *)

\* C1 (as claimed): a returned index is not None only if the returned score
\* is >= the configured similarity_threshold.
C1_IndexImpliesThreshold ==
    (Returned /\ result.idx # None) => result.score >= similarity_threshold

\* C1 (amended): a returned index is not None only if the returned score is
\* >= similarity_threshold when the vector strategy produced the result, and
\* >= 0.3 when the token-overlap strategy produced it.
C1_IndexImpliesStrategyThreshold ==
    (Returned /\ result.idx # None) =>
        /\ path.by \in {"tfidf", "simple"}
        /\ result.score >= ThresholdOf(path.by)

C1_Witness ==
    /\ Returned
    /\ result.idx # None
    /\ path.by = "simple"
    /\ similarity_threshold = DefaultThreshold
    /\ result.score >= SimpleThreshold
    /\ result.score < DefaultThreshold

\* the call returned the first best survivor and its score, given the
\* survivors sv and their scores sc
ReturnedBest(sv, sc) ==
    /\ result.idx = sv[FirstMaxPos(sc)]
    /\ result.score = MaxOf(sc)

\* C2: when a candidate survives and the maximum score over the survivors
\* is >= similarity_threshold, the call returns the original index of the
\* first best candidate and its score.  The scores are those of the vector
\* strategy when it produced the result, and the token-overlap ones
\* otherwise (vector mode disabled, or the vector strategy raised).
C2_BestAboveThresholdAccepted ==
    (Returned /\ search_title # <<>>) =>
        \E sv \in {SurvivorSeq(impl, candidate_titles)} :
        \E sc \in {ScoresIn(IF path.by = "tfidf" THEN "tfidf" ELSE "simple",
                            impl, search_title, candidate_titles, sv)} :
            (sv # <<>> /\ MaxOf(sc) >= similarity_threshold)
                => ReturnedBest(sv, sc)

\* C3: a rejecting call with a scored candidate returns the true maximum
\* score, also when the vector strategy failed during the call (the maximum
\* is then the token-overlap one).
C3_RejectionKeepsBestScore ==
    (Returned /\ result.idx = None /\ search_title # <<>>) =>
        \E sv \in {SurvivorSeq(impl, candidate_titles)} :
            sv # <<>> =>
                result.score =
                    MaxOf(ScoresIn(IF path.failed THEN "simple" ELSE path.by,
                                   impl, search_title, candidate_titles, sv))

\* C4: a returned index that is not None is a position of the caller's list,
\* and it is the position of the candidate that obtained the returned score.
C4_IndexFidelity ==
    (Returned /\ result.idx # None) =>
        /\ 0 <= result.idx
        /\ result.idx < Len(candidate_titles)
        /\ \E sv \in {SurvivorSeq(impl, candidate_titles)} :
           \E sc \in {ScoresIn(path.by, impl, search_title, candidate_titles, sv)} :
              /\ \E k \in 1..Len(sv) : sv[k] = result.idx /\ sc[k] = result.score
              /\ ReturnedBest(sv, sc)

C4_Witness ==
    /\ Returned
    /\ path.by = "tfidf"
    /\ result.idx = 1
    /\ 0 \notin Survivors(impl, candidate_titles)

\* C5: an empty search title, an empty candidate list, or candidates that all
\* normalise to the empty string give exactly (None, 0.0) and no exception.
C5_DegenerateInput ==
    (Returned /\ (search_title = <<>> \/ SurvivorSeq(impl, candidate_titles) = <<>>))
        => result = [idx |-> None, score |-> 0, exc |-> FALSE]

C5_Witness ==
    /\ Returned
    /\ search_title # <<>>
    /\ Len(candidate_titles) = 2
    /\ SurvivorSeq(impl, candidate_titles) = <<>>
    /\ result = [idx |-> None, score |-> 0, exc |-> FALSE]

\* C6: a candidate that normalises to the empty string is never selected and
\* raises nothing, and the call gives what it gives on the list without such
\* candidates (same score, same candidate).
C6_EmptyCandidateIgnored ==
    (Returned /\ search_title # <<>>) =>
        /\ ~result.exc
        /\ \E sv \in {SurvivorSeq(impl, candidate_titles)} :
           \E r \in {find_best_match(impl, enabled, similarity_threshold,
                                     search_title,
                                     WithoutEmpty(impl, candidate_titles))} :
              /\ result.score = r.score
              /\ (result.idx = None) = (r.idx = None)
              /\ r.idx # None => result.idx = sv[r.idx + 1]

C6_Witness ==
    /\ Returned
    /\ path.by = "tfidf"
    /\ Len(candidate_titles) = 2
    /\ Survivors(impl, candidate_titles) = {1}
    /\ result.idx = None
    /\ result.score > 0

\* C7: when the vector strategy raises, nothing reaches the caller and the
\* result is the one of the token-overlap strategy on the same arguments.
C7_FailureFallsBack ==
    (Returned /\ path.failed) =>
        /\ ~result.exc
        /\ \E r \in {find_best_match_simple(impl, TRUE, search_title,
                                            candidate_titles)} :
              result.idx = r.idx /\ result.score = r.score

\* C8: no call changes the strategy flag or the threshold, and a call that
\* follows a call whose vector strategy raised attempts the vector strategy
\* again.
C8_ConfigurationFrozen ==
    [][/\ enabled' = enabled
       /\ similarity_threshold' = similarity_threshold
       /\ (pc = "idle" /\ pc' = "returned" /\ prev_failed
             /\ search_title' # <<>>
             /\ SurvivorSeq(impl, candidate_titles') # <<>>) => path'.tried]_vars

C8_Witness ==
    /\ Returned
    /\ prev_failed
    /\ path.tried
    /\ path.failed

\* C11: when several candidates share the maximum score, the selected one is
\* the one with the smallest original index, in both strategies.
C11_TieEarliestIndex ==
    (Scored /\ result.idx # None) =>
        \E sv \in {SurvivorSeq(impl, candidate_titles)} :
        \E sc \in {ScoresIn(path.by, impl, search_title, candidate_titles, sv)} :
            \A k \in 1..Len(sv) : sc[k] = result.score => result.idx <= sv[k]

C11_Witness ==
    /\ Scored
    /\ path.by = "tfidf"
    /\ result.idx = 0
    /\ \E sc \in {ScoresOf("tfidf", impl, search_title, candidate_titles)} :
          Len(sc) = 2 /\ sc[1] = sc[2]

\* C12: for the same arguments and strategy, a matcher with a threshold t
\* not above the configured one accepts the index the configured matcher
\* accepts, and returns the same score.
C12_ThresholdMonotone ==
    Returned =>
        \A t \in Thresholds :
            t <= similarity_threshold =>
                \E r \in {find_best_match(impl, enabled, t, search_title,
                                          candidate_titles)} :
                    /\ result.idx # None => r.idx = result.idx
                    /\ r.score = result.score

C12_Witness ==
    /\ Returned
    /\ path.by = "tfidf"
    /\ similarity_threshold = DefaultThreshold
    /\ Len(candidate_titles) = 2
    /\ result.idx = 1

\* the whitespace tokens of the normal form of t
TokenSet(im, t) == {w \in ToSet(split(NormalizedTitle(im, t))) : w # <<>>}

\* |A \cap B| / |A \cup B| by inclusion-exclusion, 0 when either set is empty
OverlapRatio(A, B) ==
    IF A = {} \/ B = {} THEN 0
    ELSE (Scale * Cardinality(A \cap B))
            \div (Cardinality(A) + Cardinality(B) - Cardinality(A \cap B))

\* the greatest overlap ratio of s with a candidate of c, 0 without candidate
BestOverlap(im, s, c) ==
    LET ratios == {OverlapRatio(TokenSet(im, s), TokenSet(im, c[k])) :
                      k \in 1..Len(c)} \cup {0}
    IN  CHOOSE m \in ratios : \A x \in ratios : x <= m

\* C13: in the token-overlap strategy the returned score is the greatest
\* |A \cap B| / |A \cup B| over the candidates (0 when a set is empty), and a
\* candidate is selected exactly when that score is >= 0.3, whatever the
\* configured similarity_threshold.
C13_TokenOverlapScore ==
    (Returned /\ path.by = "simple") =>
        /\ result.score = BestOverlap(impl, search_title, candidate_titles)
        /\ (result.idx # None) <=> (result.score >= 300)
        /\ result.idx # None =>
              OverlapRatio(TokenSet(impl, search_title),
                           TokenSet(impl, candidate_titles[result.idx + 1]))
                  = result.score

C13_Witness ==
    /\ Returned
    /\ path.by = "simple"
    /\ similarity_threshold = Scale
    /\ result.idx # None
    /\ result.score < Scale

\* C15: find_best_match("FIFA 23", ["FIFA 24"]) with threshold 0.6 rejects:
\* it returns (None, score) with score < 0.6, in both strategies.
C15_Fifa23IsNotFifa24 ==
    (/\ Returned
     /\ similarity_threshold = DefaultThreshold
     /\ search_title = T_FIFA_23
     /\ candidate_titles = <<T_FIFA_24>>) =>
        /\ result.idx = None
        /\ result.score < DefaultThreshold

\* C16: find_best_match("The Witcher 3", ["The Witcher III Wild Hunt"])
\* selects index 0 under the default threshold, in both strategies.
C16_WitcherAccepted ==
    (/\ Returned
     /\ similarity_threshold = DefaultThreshold
     /\ search_title = T_Witcher_3
     /\ candidate_titles = <<T_Witcher_III>>) =>
        result.idx = 0

\* C17: a non-empty search title that normalises to the empty string is
\* unmatchable: for every candidate list and every threshold, 0 included, the
\* call returns (None, 0.0) and raises nothing, in both strategies.
C17_EmptyNormalFormUnmatchable ==
    (/\ Returned
     /\ search_title # <<>>
     /\ NormalizedTitle(impl, search_title) = <<>>) =>
        result = [idx |-> None, score |-> 0, exc |-> FALSE]

-----------------------------------------------------------------------------
(* Claims on calls that follow or overlap one another *)

\* what a call returns on a matcher that no other call has used or uses
ResultAlone(call) ==
    IF call.kind = "match"
    THEN AsResult(find_best_match(impl, enabled, similarity_threshold,
                                  call.s, call.c))
    ELSE ScoreResult(get_similarity_score(impl, call.s, call.c[1]))

\* the first candidate of c (0-based) whose token set is that of s
FirstSameTokens(im, s, c) ==
    CHOOSE i \in 0..(Len(c) - 1) :
        /\ TokenSet(im, c[i + 1]) = TokenSet(im, s)
        /\ \A j \in 0..(i - 1) : TokenSet(im, c[j + 1]) # TokenSet(im, s)

\* C14: with the vector strategy disabled, two calls with the same arguments
\* return the same index and score whatever calls preceded them, and a
\* candidate whose token set is the non-empty token set of the search title
\* is accepted with score 1.0 under every configured threshold.
C14_FallbackConsistency ==
    ~enabled =>
        /\ \A t \in Threads, u \in Threads :
              (tpc[t] = "returned" /\ tpc[u] = "returned" /\ tcall[t] = tcall[u])
                  => tres[t] = tres[u]
        /\ \A t \in Threads :
              (/\ tpc[t] = "returned"
               /\ TokenSet(impl, tcall[t].s) # {}
               /\ \E k \in 1..Len(tcall[t].c) :
                     TokenSet(impl, tcall[t].c[k]) = TokenSet(impl, tcall[t].s))
                  => tres[t] = [idx |-> FirstSameTokens(impl, tcall[t].s,
                                                        tcall[t].c),
                                score |-> Scale,
                                exc |-> FALSE]

C14_Witness ==
    /\ ~enabled
    /\ similarity_threshold = Scale
    /\ \A t \in Threads :
          /\ tpc[t] = "returned"
          /\ tcall[t] = MatchCall(T_FIFA_23, <<T_FIFA_24, T_FIFA_23>>)
          /\ tres[t] = [idx |-> 1, score |-> Scale, exc |-> FALSE]

\* C19: a call that runs while no other call does returns what it returns on
\* a fresh matcher, whatever find_best_match and get_similarity_score calls
\* were made on the instance before and whatever they left in the vectorizer.
C19_StatelessAcrossCalls ==
    \A t \in Threads :
        (tpc[t] = "returned" /\ tclean[t]) => tres[t] = ResultAlone(tcall[t])

C19_Witness ==
    /\ tpc["A"] = "returned"
    /\ tclean["A"]
    /\ tcall["A"] = MatchCall(T_fifa_street, <<T_FIFA_23>>)
    /\ tres["A"].score > 0
    /\ tpc["B"] = "returned"
    /\ tclean["B"]
    /\ tcall["B"] = MatchCall(T_Witcher_3, <<T_Witcher_III>>)
    /\ tres["B"].score > 0

\* C20: two calls that run concurrently on one matcher each return what they
\* return when they run alone, in every interleaving of their fit and
\* transform steps.
C20_ConcurrentCallsIndependent ==
    \A t \in Threads :
        tpc[t] = "returned" => tres[t] = ResultAlone(tcall[t])

-----------------------------------------------------------------------------
(* Claims on the arithmetic of the score *)

\* C18: every score returned by find_best_match lies in the closed interval
\* [0.0, 1.0]; here, the score the vector strategy returns, in the floats
\* of the program.
C18_ScoreInUnitInterval ==
    fpc = "returned" => (FLeq(Zero, fbest_score) /\ FLeq(fbest_score, One))


\* the workflows behind DatabaseManager are run again and again, each gets
\* its turn with the database reachable, and a step that can be taken is taken
SpecPricesLive ==
    /\ InitPrices
    /\ [][NextPrices]_vars
    /\ WF_vars(NextPrices)
    /\ \A w \in {"api", "tfidf"} : SF_vars(SelectGames(w, TRUE))

-----------------------------------------------------------------------------
(* RawgExtractor.fetch_games: the loop over the pages of the catalogue.  A game
   is <<page, position on the page>> *)

\* the literal 100 of the guard on page
PageCap == 100
\* self.page_size, 40 in the program: the records of a page
PageSize == 2
\* the largest limit a call is made with
MaxLimit == 3

\* what the API answers to the request of a page: results, of which the
\* records at the positions in parsed survive _parse_game; no results; a
\* RequestException; another exception
PageOutcomes ==
    [kind : {"results"}, parsed : SUBSET (1..PageSize)]
    \cup [kind : {"empty", "request_error", "error"}, parsed : {{}}]

\* the for loop over data['results'] without its test of len(games)
RECURSIVE TakeAllRecords(_, _, _, _, _)
TakeAllRecords(lim, acc, pg, parsed, k) ==
    IF k > PageSize THEN acc
    ELSE TakeAllRecords(lim,
                        IF k \in parsed THEN Append(acc, <<pg, k>>) ELSE acc,
                        pg, parsed, k + 1)

\* the for loop over data['results']: it stops once limit games are held,
\* and appends the records that parse
RECURSIVE TakeRecords(_, _, _, _, _)
TakeRecords(lim, acc, pg, parsed, k) ==
    IF k > PageSize \/ Len(acc) >= lim THEN acc
    ELSE TakeRecords(lim,
                     IF k \in parsed THEN Append(acc, <<pg, k>>) ELSE acc,
                     pg, parsed, k + 1)

\* the state of the loop on entry: nothing fetched; the while test fails at
\* once when limit is not positive
FetchEntry(lim, start) ==
    [page |-> start, games |-> <<>>, requests |-> <<>>, done |-> ~(0 < lim)]

\* one pass of the while loop: the request, then break on no results or on an
\* exception, else the records, page += 1, the guard on page and the while
\* test
FetchStep(lim, st, outcome) ==
    IF outcome.kind # "results"
    THEN [st EXCEPT !.requests = Append(st.requests, st.page), !.done = TRUE]
    ELSE LET got == TakeRecords(lim, st.games, st.page, outcome.parsed, 1)
         IN [page |-> st.page + 1,
             games |-> got,
             requests |-> Append(st.requests, st.page),
             done |-> (st.page + 1 > PageCap) \/ ~(Len(got) < lim)]

\* fetch_games(limit, start_page) against an API that answers page p with
\* api[p]: the state the loop ends in
RECURSIVE FetchLoop(_, _, _)
FetchLoop(lim, st, api) ==
    IF st.done THEN st
    ELSE FetchLoop(lim, FetchStep(lim, st, api[st.page]), api)

fetch_games(lim, start, api) == FetchLoop(lim, FetchEntry(lim, start), api).games

\* the calls made: near the page guard with every limit, and from page 1
\* with limit 1
FetchCalls == ((0..MaxLimit) \X ((PageCap - 3)..(PageCap + 1))) \cup {<<1, 1>>}

InitFetch ==
    /\ impl = "utils"
    /\ similarity_threshold = DefaultThreshold
    /\ enabled = TRUE
    /\ vectorizer = {}
    /\ pc = "idle"
    /\ search_title = <<>>
    /\ candidate_titles = <<>>
    /\ result = NoResult
    /\ path = NoPath
    /\ prev_failed = FALSE
    /\ title = <<>>
    /\ npc = "off"
    /\ once = <<>>
    /\ twice = <<>>
    /\ ThreadsIdle
    /\ fused = FALSE
    /\ FloatIdle
    /\ PricesIdle
    /\ GamesIdle
    /\ \E call \in FetchCalls :
          /\ limit = call[1]
          /\ start_page = call[2]
          /\ page = FetchEntry(call[1], call[2]).page
          /\ fetch_pc = IF FetchEntry(call[1], call[2]).done THEN "done"
                        ELSE "loop"
    /\ fetched = <<>>
    /\ requests = <<>>

\* one pass of the while loop of fetch_games
Request(outcome) ==
    /\ fetch_pc = "loop"
    /\ \E st \in {FetchStep(limit,
                            [page |-> page, games |-> fetched,
                             requests |-> requests, done |-> FALSE],
                            outcome)} :
          /\ page' = st.page
          /\ fetched' = st.games
          /\ requests' = st.requests
          /\ fetch_pc' = IF st.done THEN "done" ELSE "loop"
    /\ UNCHANGED <<limit, start_page>>
    /\ UNCHANGED <<coreVars, priceVars, gameVars>>

NextFetch == \E outcome \in PageOutcomes : Request(outcome)

SpecFetch == InitFetch /\ [][NextFetch]_vars

\* the call goes on as long as its loop has a pass to make
SpecFetchLive == SpecFetch /\ WF_vars(NextFetch)

-----------------------------------------------------------------------------
(* The catalogue: DatabaseManager and upsert_games write the table games,
   the incremental update and the complete pipeline move api_state.last_page *)

\* what mysql.connector.connect does: it gives a connection that reports
\* connected, raises mysql.connector.Error, raises another exception, or
\* gives a connection that does not report connected
ConnectOutcomes == {"connected", "mysql_error", "exception", "not_connected"}

\* what a call did: the value it returned (ret; FALSE is False or 0), whether
\* it raised, whether it opened and closed a connection, the rows it wrote
\* durably; refused is the position of the row the server refuses, 0 for none
DbCall(op, connect, batch, refused, ret, raised, opened, closed, written) ==
    [op |-> op, connect |-> connect, batch |-> batch, refused |-> refused,
     ret |-> ret, raised |-> raised, opened |-> opened, closed |-> closed,
     written |-> written]

Rows(batch) == {batch[i] : i \in 1..Len(batch)}

\* DatabaseManager.test_connection over get_connection, which catches Error
\* and nothing else
test_connection(connect) ==
    IF connect = "exception"
    THEN DbCall("test_connection", connect, <<>>, 0, FALSE, TRUE, FALSE,
                FALSE, {})
    ELSE IF connect = "connected"
    THEN DbCall("test_connection", connect, <<>>, 0, TRUE, FALSE, TRUE, TRUE,
                {})
    ELSE DbCall("test_connection", connect, <<>>, 0, FALSE, FALSE,
                connect = "not_connected", FALSE, {})

\* save_games with get_connection moved before the test of games_df.empty
save_games_connecting_first(connect, batch, refused) ==
    IF connect = "exception"
    THEN DbCall("save_games", connect, batch, refused, FALSE, TRUE, FALSE,
                FALSE, {})
    ELSE IF connect = "mysql_error"
    THEN DbCall("save_games", connect, batch, refused, FALSE, FALSE, FALSE,
                FALSE, {})
    ELSE IF batch = <<>>
    THEN DbCall("save_games", connect, batch, refused, TRUE, FALSE, TRUE,
                FALSE, {})
    ELSE IF refused # 0
    THEN DbCall("save_games", connect, batch, refused, FALSE, FALSE, TRUE,
                TRUE, {})
    ELSE DbCall("save_games", connect, batch, refused, TRUE, FALSE, TRUE,
                TRUE, Rows(batch))

\* DatabaseManager.save_games: nothing to do for an empty frame; else one
\* executemany and one commit, rolled back on Error.  The connection
\* get_connection returned is taken to stay connected during the call
save_games(connect, batch, refused) ==
    IF batch = <<>>
    THEN DbCall("save_games", connect, batch, refused, TRUE, FALSE, FALSE,
                FALSE, {})
    ELSE IF connect = "exception"
    THEN DbCall("save_games", connect, batch, refused, FALSE, TRUE, FALSE,
                FALSE, {})
    ELSE IF connect = "mysql_error"
    THEN DbCall("save_games", connect, batch, refused, FALSE, FALSE, FALSE,
                FALSE, {})
    ELSE IF refused # 0
    THEN DbCall("save_games", connect, batch, refused, FALSE, FALSE, TRUE,
                TRUE, {})
    ELSE DbCall("save_games", connect, batch, refused, TRUE, FALSE, TRUE,
                TRUE, Rows(batch))

\* upsert_games of run_pipeline.py: one INSERT per row on a connection opened
\* with autocommit=True; the rows before the refused one stay written and the
\* except clause returns 0
upsert_games(connect, batch, refused) ==
    IF batch = <<>>
    THEN DbCall("upsert_games", connect, batch, refused, FALSE, FALSE, FALSE,
                FALSE, {})
    ELSE IF connect = "exception"
    THEN DbCall("upsert_games", connect, batch, refused, FALSE, TRUE, FALSE,
                FALSE, {})
    ELSE IF connect # "connected"
    THEN DbCall("upsert_games", connect, batch, refused, FALSE, FALSE,
                connect = "not_connected", FALSE, {})
    ELSE IF refused # 0
    THEN DbCall("upsert_games", connect, batch, refused, FALSE, FALSE, TRUE,
                TRUE, {batch[i] : i \in 1..(refused - 1)})
    ELSE DbCall("upsert_games", connect, batch, refused, TRUE, FALSE, TRUE,
                TRUE, Rows(batch))

\* fetch_games(limit=50) of the complete pipeline and
\* extract_new_games(last_page, 100) of the incremental update, for pages of
\* PageSize records instead of 40: a page and a half, two pages and a half
CompleteLimit == 3
GamesToExtract == 5
\* COALESCE(last_page, 64)
DefaultLastPage == 64
\* the pages the catalogue has; every page holds PageSize games
CatalogPages == 70
\* runs are made while last_page is below this
MaxCursor == 3

\* the API during one run: the request of page bad fails (0: none does), the
\* pages of the catalogue come back whole, the pages behind it empty
Api(bad) ==
    [p \in 1..(PageCap + 1) |->
       IF p = bad THEN [kind |-> "request_error", parsed |-> {}]
       ELSE IF p <= CatalogPages
       THEN [kind |-> "results", parsed |-> 1..PageSize]
       ELSE [kind |-> "empty", parsed |-> {}]]

PagesNeeded == (GamesToExtract + PageSize - 1) \div PageSize

\* the loop of extract_new_games over the pages: fetch_games(limit=40) of one
\* page, update_extraction_state(page_num) right after it, and the two breaks
RECURSIVE ExtractPages(_, _, _, _)
ExtractPages(api, page_num, left, st) ==
    IF left = 0 THEN st
    ELSE LET games_data == fetch_games(PageSize, page_num, api)
         IN IF games_data = <<>> THEN st
            ELSE IF Len(st.all_games \o games_data) >= GamesToExtract
            THEN [all_games |-> st.all_games \o games_data,
                  cursor |-> page_num]
            ELSE ExtractPages(api, page_num + 1, left - 1,
                              [all_games |-> st.all_games \o games_data,
                               cursor |-> page_num])

\* combined_games.head(games_to_extract)
FirstRows(rows, n) == SubSeq(rows, 1, IF Len(rows) < n THEN Len(rows) ELSE n)

pricesButGames == <<best_price_pc, unique_price_game, last_saved, run, rpc,
                    scraper_enabled, todo, results, driver>>

\* one run of main of incremental_update.py, as far as games and api_state
\* go: get_last_extraction_state, then extract_new_games
IncrementalRun(bad, connect, refused) ==
    /\ last_page = None \/ last_page < MaxCursor
    /\ \E st \in {ExtractPages(Api(bad),
                               (IF last_page = None THEN 0 ELSE last_page) + 1,
                               PagesNeeded,
                               [all_games |-> <<>>, cursor |-> last_page])} :
          /\ st.all_games # <<>>
          /\ refused <= Len(FirstRows(st.all_games, GamesToExtract))
          /\ \E call \in {save_games(connect,
                                     FirstRows(st.all_games, GamesToExtract),
                                     refused)} :
                /\ games' = games \cup call.written
                /\ last_call' = call
          /\ last_page' = st.cursor
          /\ first_page' = IF first_page = None
                           THEN (IF last_page = None THEN 0 ELSE last_page) + 1
                           ELSE first_page
    /\ UNCHANGED pricesButGames
    /\ UNCHANGED <<coreVars, fetchVars>>

\* phase 1 of main of run_complete_pipeline.py
CompleteRun(bad, connect, refused) ==
    /\ last_page = None \/ last_page < MaxCursor
    /\ connect # "exception"
    /\ \E next_page \in {(IF last_page = None THEN DefaultLastPage
                          ELSE last_page) + 1} :
       \E games_df \in {fetch_games(CompleteLimit, next_page, Api(bad))} :
          /\ games_df # <<>>
          /\ refused <= Len(games_df)
          /\ \E call \in {save_games(connect, games_df, refused)} :
                /\ games' = games \cup call.written
                /\ last_call' = call
                /\ last_page' = IF call.ret THEN next_page + 1 ELSE last_page
          /\ first_page' = IF first_page = None THEN next_page
                           ELSE first_page
    /\ UNCHANGED pricesButGames
    /\ UNCHANGED <<coreVars, fetchVars>>

\* a call of db.test_connection()
TestConnection(connect) ==
    /\ last_call' = test_connection(connect)
    /\ UNCHANGED <<games, last_page, first_page>>
    /\ UNCHANGED pricesButGames
    /\ UNCHANGED <<coreVars, fetchVars>>

\* a call of db.save_games(batch)
SaveGames(connect, batch, refused) ==
    /\ connect # "not_connected"
    /\ refused <= Len(batch)
    /\ \E call \in {save_games(connect, batch, refused)} :
          /\ games' = games \cup call.written
          /\ last_call' = call
    /\ UNCHANGED <<last_page, first_page>>
    /\ UNCHANGED pricesButGames
    /\ UNCHANGED <<coreVars, fetchVars>>

\* a call of upsert_games(batch)
UpsertGames(connect, batch, refused) ==
    /\ refused <= Len(batch)
    /\ \E call \in {upsert_games(connect, batch, refused)} :
          /\ games' = games \cup call.written
          /\ last_call' = call
    /\ UNCHANGED <<last_page, first_page>>
    /\ UNCHANGED pricesButGames
    /\ UNCHANGED <<coreVars, fetchVars>>

\* the frames the calls are made with
Batches == {<<>>, <<<<1, 1>>>>, <<<<1, 1>>, <<1, 2>>>>}
Refusals == 0..2
BadPages == {0} \cup (2..(MaxCursor + 2)) \cup {DefaultLastPage + 2}

InitGames ==
    /\ impl = "utils"
    /\ similarity_threshold = DefaultThreshold
    /\ enabled = TRUE
    /\ vectorizer = {}
    /\ pc = "idle"
    /\ search_title = <<>>
    /\ candidate_titles = <<>>
    /\ result = NoResult
    /\ path = NoPath
    /\ prev_failed = FALSE
    /\ title = <<>>
    /\ npc = "off"
    /\ once = <<>>
    /\ twice = <<>>
    /\ ThreadsIdle
    /\ fused = FALSE
    /\ FloatIdle
    /\ PipelineIdle

NextGames ==
    \/ \E bad \in BadPages, connect \in ConnectOutcomes \ {"not_connected"},
          refused \in Refusals : IncrementalRun(bad, connect, refused)
    \/ \E bad \in BadPages, connect \in ConnectOutcomes \ {"not_connected"},
          refused \in Refusals : CompleteRun(bad, connect, refused)
    \/ \E connect \in ConnectOutcomes : TestConnection(connect)
    \/ \E connect \in ConnectOutcomes, batch \in Batches,
          refused \in Refusals : SaveGames(connect, batch, refused)
    \/ \E connect \in ConnectOutcomes, batch \in Batches,
          refused \in Refusals : UpsertGames(connect, batch, refused)

SpecGames == InitGames /\ [][NextGames]_vars

-----------------------------------------------------------------------------
(* Claims on price scraping *)

\* the rows of the frame scrape_prices is building or has returned
ScrapedRows ==
    IF run \in {"api", "tfidf"} THEN {results[i] : i \in 1..Len(results)}
    ELSE {}

\* C21: in every scrape_prices run, a result row carries a non-null price
\* only if find_best_match was called for that game and returned an index
\* other than None.
C21_PriceOnlyIfSelected ==
    \A row \in ScrapedRows :
        row.price # Null => (row.consulted /\ row.verdict.idx # None)

\* C22: the similarity_score of every result row of scrape_prices is the
\* score find_best_match returned for that game, and the score last saved for
\* a game is the similarity_score of its rows in best_price_pc.
C22_ScoreIsMatcherScore ==
    /\ \A row \in ScrapedRows :
          row.consulted /\ row.similarity_score = row.verdict.score
    /\ \A i \in 1..Len(best_price_pc) :
          best_price_pc[i].similarity_score =
              last_saved[best_price_pc[i].game_id_rawg].similarity_score

\* C23: whatever was saved, with or without the unique key, best_price_pc
\* holds at most one row per game_id_rawg, and that row holds the price saved
\* last for the game.
C23_OneRowPerGame ==
    \A g \in GameIds :
        /\ Cardinality(RowsOf(best_price_pc, g)) <= 1
        /\ last_saved[g].saved =>
               \E i \in RowsOf(best_price_pc, g) :
                   best_price_pc[i].price = last_saved[g].price

\* between two runs, every row best_price_pc holds for game g has no price
NullPriced(g) ==
    /\ rpc = "idle"
    /\ RowsOf(best_price_pc, g) # {}
    /\ \A i \in RowsOf(best_price_pc, g) : best_price_pc[i].price = Null
HasPrice(g) ==
    \E i \in RowsOf(best_price_pc, g) : best_price_pc[i].price # Null
\* get_games_for_price_update has just returned game g
Reselected(g) ==
    /\ rpc = "selected"
    /\ run \in {"api", "tfidf"}
    /\ \E k \in 1..Len(todo) : todo[k] = g

\* C27: a game whose scraping run found no price stays eligible: once its
\* stored price is NULL, a later run's get_games_for_price_update returns the
\* game again, or the game gets a non-null stored price.
C27_NoPriceStaysEligible ==
    \A g \in GameIds : NullPriced(g) ~> (Reselected(g) \/ HasPrice(g))

\* C30: when a price-scraping run has returned its frame or let an exception
\* propagate, the browser driver it created is not live any more.
C30_DriverQuit == rpc \in {"scraped", "raised"} => driver # "live"

-----------------------------------------------------------------------------
(* Claims on the catalogue *)

\* C24: test_connection returns True exactly when connect gave a connection
\* that reports connected, which it then closed, and returns False without
\* raising however connect failed, a plain Exception included.
C24_TestConnectionNeverRaises ==
    last_call.op = "test_connection" =>
        /\ ~last_call.raised
        /\ last_call.ret <=> last_call.connect = "connected"
        /\ last_call.ret => last_call.closed

\* C25: save_games of an empty frame returns True, opens no connection and
\* writes nothing, whatever connect would do.
C25_EmptySaveIsNoOp ==
    (last_call.op = "save_games" /\ last_call.batch = <<>>) =>
        /\ last_call.ret
        /\ ~last_call.raised
        /\ ~last_call.opened
        /\ last_call.written = {}
\* save_games of an empty frame returned while no connection can be had
C25_Witness ==
    /\ last_call.op = "save_games"
    /\ last_call.batch = <<>>
    /\ last_call.connect = "mysql_error"
    /\ last_call.ret

\* C26: every game of the catalogue on a page from the first page extracted
\* up to api_state.last_page is in the table games.
C26_CursorBehindSavedData ==
    (first_page # None /\ last_page # None) =>
        \A p \in first_page..last_page :
            p <= CatalogPages =>
                \A k \in 1..PageSize : <<p, k>> \in games

\* C28: a save of a batch is all-or-nothing: when a row is refused nothing of
\* the batch is written and the call reports failure, and a call that reports
\* failure has written nothing.
C28_SaveAllOrNothing ==
    last_call.op \in {"save_games", "upsert_games"} =>
        /\ last_call.refused # 0 =>
               (last_call.written = {} /\ ~last_call.ret)
        /\ (~last_call.ret /\ ~last_call.raised) => last_call.written = {}

\* the most page requests fetch_games(limit, start_page) may issue
MostRequests == IF PageCap + 1 - start_page > 1 THEN PageCap + 1 - start_page
                ELSE 1
\* games are in page order: by page, then by position on the page
InPageOrder(gs) ==
    \A i, j \in 1..Len(gs) :
        i < j => \/ gs[i][1] < gs[j][1]
                 \/ (gs[i][1] = gs[j][1] /\ gs[i][2] < gs[j][2])
FetchBounded ==
    /\ Len(requests) <= MostRequests
    /\ \A i \in 1..Len(requests) : requests[i] = start_page + i - 1
    /\ Len(fetched) <= limit
    /\ InPageOrder(fetched)

-----------------------------------------------------------------------------
(* Normaliser claims *)

\* C9: normalize_title is idempotent: normalising an already normalised
\* title gives the same string.
C9_Idempotent == npc = "twice" => twice = once

\* C10: normalize_title returns only lowercase letters, digits and single
\* spaces, with no leading or trailing space.
C10_OutputAlphabet ==
    npc \in {"once", "twice"} =>
        /\ \A k \in 1..Len(once) :
              once[k] \in LowerLetters \cup Digits \cup {" "}
        /\ \A k \in 1..(Len(once) - 1) : ~(once[k] = " " /\ once[k + 1] = " ")
        /\ once # <<>> => (once[1] # " " /\ once[Len(once)] # " ")

====
